---- MODULE Spec2Model ----
(***************************************************************************)
(* State-machine model of the SNMP monitoring backend: the poll            *)
(* coordinator (services/polling_state.py) with its two triggers           *)
(* (main.run_polling, endpoints/polling.poll_all_device_api), and the      *)
(* alerting engine (services/polling_service.py, services/alert_service.py,*)
(* services/alert_history_service.py, endpoints/devices.py,                *)
(* endpoints/device_alerts.py), and the discovery scan                     *)
(* (services/discovery_service.py, services/snmp_service.py).              *)
(***************************************************************************)
EXTENDS Integers, Sequences, FiniteSets, Bags, TLC

VARIABLES
    polling_state,   \* PollingState: [is_polling, polling_type]
    trig,            \* per trigger: position in run_polling / poll_all_device_api
    now,             \* wall clock, datetime.now(timezone.utc)
    devices,         \* table devices: device id -> row (committed)
    interfaces,      \* table interfaces: sequence of rows (committed), row id = position
    if_metrics,      \* table interface_metrics: interface id -> its two newest rows
    alert_history,   \* table alert_history: sequence of rows (committed), id = position
    recipients,      \* whether table alert_recipients holds a row
    agent,           \* what the SNMP agent of the monitored device reports
    mail_threads,    \* send_email_background threads that have not called back yet
    cycle,           \* the running perform_full_poll pass
    task,            \* per device: the limited_polling task of the running pass
    present,         \* table devices: the ids whose row exists
    metric_rows,     \* tables device_metrics and interface_metrics: the rows
                     \* committed since the running pass began
    discovery,       \* the running perform_full_discovery scan
    inventory,       \* table devices as discovery writes it: the mac_address,
                     \* ip_address and hostname of its rows, row id = position
    walk,            \* the running PySNMPClient.bulk_walk call and the agent's table
    ev,              \* what the last step did: its input, notifications, response
    run_alerts       \* alert e-mails started in the present run of breaching polls

coordVars == <<polling_state, trig>>

\* what the requests, the clock and the scan leave alone / what a poll leaves alone
passVars == <<present, metric_rows, discovery, inventory, walk>>
scanVars == <<present, discovery, inventory, walk>>

engineVars == <<now, devices, interfaces, if_metrics, alert_history, recipients,
                agent, mail_threads, cycle, task, present, metric_rows, discovery,
                inventory, walk, ev, run_alerts>>

vars == <<polling_state, trig, now, devices, interfaces, if_metrics, alert_history,
          recipients, agent, mail_threads, cycle, task, present, metric_rows,
          discovery, inventory, walk, ev, run_alerts>>

NULL == "null"

(***************************************************************************)
(* Poll coordinator                                                        *)
(***************************************************************************)

\* number of manual poll requests that may be in flight at once
MaxManual == 2

AUTO == 0
Manuals == 1..MaxManual
Triggers == {AUTO} \cup Manuals

KindOf(t) == IF t = AUTO THEN "automatic" ELSE "manual"

\* PollingState.__init__
PollingStateInit == [is_polling |-> FALSE, polling_type |-> NULL]

\* start_polling without the test: the kind is recorded whatever the flag is
start_polling_overwrites(ps, polling_type) ==
    [ps |-> [is_polling |-> TRUE, polling_type |-> polling_type],
     ret |-> ~ps.is_polling]

\* PollingState.start_polling: the new coordinator state and the return value
start_polling(ps, polling_type) ==
    IF ps.is_polling
    THEN [ps |-> ps, ret |-> FALSE]
    ELSE [ps |-> [is_polling |-> TRUE, polling_type |-> polling_type], ret |-> TRUE]

\* PollingState.end_polling
end_polling(ps) == [is_polling |-> FALSE, polling_type |-> NULL]

\* PollingState.is_polling
is_polling(ps) == ps.is_polling

\* PollingState.get_status
get_status(ps) == [is_polling |-> ps.is_polling, polling_type |-> ps.polling_type]

\* Positions of a trigger.  Each is the await the trigger is suspended on:
\*   "idle"          run_polling: asyncio.sleep; manual: no request in flight
\*   "is_polling"    suspended on  await polling_state.is_polling()
\*   "start_polling" suspended on  await polling_state.start_polling(...)
\*   "polling"       inside        await perform_full_poll(db, client)
\*   "end_polling"   suspended on  await polling_state.end_polling()
TrigPcs == {"idle", "is_polling", "start_polling", "polling", "end_polling"}

\* what the last completed pass of a trigger ended with
Outcomes == {"none", "skipped", "409", "200", "500", "done", "error"}

TrigInit == [pc |-> "idle", ret |-> FALSE, last |-> "none"]

\* run_polling: the sleep ends and the loop reaches `await is_polling()`
\* poll_all_device_api: a request arrives and reaches `await is_polling()`
TriggerFires(t) ==
    /\ trig[t].pc = "idle"
    /\ trig' = [trig EXCEPT ![t] = [pc |-> "is_polling", ret |-> FALSE, last |-> "none"]]
    /\ UNCHANGED <<polling_state, engineVars>>

\* the check of a trigger that goes on to start_polling whatever it observed
TriggerIsPollingQueues(t) ==
    /\ trig[t].pc = "is_polling"
    /\ trig' = [trig EXCEPT ![t].pc = "start_polling"]
    /\ UNCHANGED <<polling_state, engineVars>>

\* run_polling lines 89-92 / poll_all_device_api lines 39-41: the check
TriggerIsPolling(t) ==
    /\ trig[t].pc = "is_polling"
    /\ IF is_polling(polling_state)
       THEN trig' = [trig EXCEPT ![t].pc = "idle",
                                 ![t].last = IF t = AUTO THEN "skipped" ELSE "409"]
       ELSE trig' = [trig EXCEPT ![t].pc = "start_polling"]
    /\ UNCHANGED <<polling_state, engineVars>>

\* the trigger whose client creation is outside the try: a raise leaves the
\* pass without end_polling
TriggerStartPollingUnguarded(t, clientRaises) ==
    /\ trig[t].pc = "start_polling"
    /\ LET r == start_polling(polling_state, KindOf(t)) IN
       /\ polling_state' = r.ps
       /\ trig' = [trig EXCEPT ![t].ret = r.ret,
                               ![t].pc = IF clientRaises THEN "idle" ELSE "polling",
                               ![t].last = IF clientRaises
                                           THEN (IF t = AUTO THEN "error" ELSE "500")
                                           ELSE "none"]
    /\ UNCHANGED engineVars

\* run_polling lines 97-103 / poll_all_device_api lines 43-51:
\* start_polling runs (its result is dropped), the SNMP client is created
\* (which may raise) and perform_full_poll is entered.
TriggerStartPolling(t, clientRaises) ==
    /\ trig[t].pc = "start_polling"
    /\ LET r == start_polling(polling_state, KindOf(t)) IN
       /\ polling_state' = r.ps
       /\ trig' = [trig EXCEPT ![t].ret = r.ret,
                               ![t].pc = IF clientRaises THEN "end_polling" ELSE "polling",
                               ![t].last = IF clientRaises
                                           THEN (IF t = AUTO THEN "error" ELSE "500")
                                           ELSE "none"]
    /\ UNCHANGED engineVars

\* perform_full_poll returns (it catches its own exceptions): the trigger
\* reaches the finally clause and `await end_polling()`
TriggerPollReturns(t) ==
    /\ trig[t].pc = "polling"
    /\ trig' = [trig EXCEPT ![t].pc = "end_polling",
                            ![t].last = IF t = AUTO THEN "done" ELSE "200"]
    /\ UNCHANGED <<polling_state, engineVars>>

\* run_polling line 106 / poll_all_device_api line 58
TriggerEndPolling(t) ==
    /\ trig[t].pc = "end_polling"
    /\ polling_state' = end_polling(polling_state)
    /\ trig' = [trig EXCEPT ![t].pc = "idle"]
    /\ UNCHANGED engineVars

(***************************************************************************)
(* Alert engine: tables                                                    *)
(***************************************************************************)

\* the clock runs from 0 to MaxNow
MaxNow == 1

\* rows the alert_history table may hold
MaxAlerts == 2

\* devices.failure_threshold of the monitored device
FailureThreshold == 2

\* Column defaults of app/core/models.py
CpuThreshold == 80
MemoryThreshold == 80

\* a NULL DateTime column / a NULL foreign key
NoTime == -1
NoIf == 0

\* a non-NULL timestamp of a column that is only stored, never compared
STAMP == "stamp"

\* devices of the fleet that one pass polls
MaxDevices == 3

\* ids of the rows the devices table has held: one monitored device, or the
\* fleet
DeviceIds == IF agent = "fleet" THEN 1..MaxDevices ELSE {1}

Metrics == {"cpu", "memory", "reachability"}
IfMetrics == {"interface_status", "packet_drop"}
AlertStates == {"clear", "triggered", "acknowledged"}

\* the three Device columns of a device-level metric
StateField(m) ==
    CASE m = "cpu" -> "cpu_alert_state"
      [] m = "memory" -> "memory_alert_state"
      [] m = "reachability" -> "reachability_alert_state"
      [] m = "interface_status" -> "oper_status_alert_state"
      [] m = "packet_drop" -> "packet_drop_alert_state"

AckField(m) ==
    CASE m = "cpu" -> "cpu_acknowledged_at"
      [] m = "memory" -> "memory_acknowledged_at"
      [] m = "reachability" -> "reachability_acknowledged_at"
      [] m = "interface_status" -> "oper_status_acknowledged_at"
      [] m = "packet_drop" -> "packet_drop_acknowledged_at"

SentField(m) ==
    CASE m = "cpu" -> "cpu_alert_sent"
      [] m = "memory" -> "memory_alert_sent"
      [] m = "reachability" -> "reachability_alert_sent"
      [] m = "interface_status" -> "oper_status_alert_sent"
      [] m = "packet_drop" -> "packet_drop_alert_sent"

\* models.Device: a freshly added device
NewDevice ==
    [cpu_threshold |-> CpuThreshold,
     memory_threshold |-> MemoryThreshold,
     failure_threshold |-> FailureThreshold,
     cpu_alert_state |-> "clear", cpu_acknowledged_at |-> NULL, cpu_alert_sent |-> FALSE,
     memory_alert_state |-> "clear", memory_acknowledged_at |-> NULL,
     memory_alert_sent |-> FALSE,
     reachability_alert_state |-> "clear", reachability_acknowledged_at |-> NULL,
     reachability_alert_sent |-> FALSE,
     maintenance_mode |-> FALSE, maintenance_until |-> NoTime, maintenance_reason |-> NULL,
     consecutive_failures |-> 0, is_reachable |-> TRUE]

(***************************************************************************)
(* A SQLAlchemy session (autoflush off) as a polling task uses it.  The    *)
(* context c of a step holds the committed tables and the session's view:  *)
(*   db, hist, ifdb, mdb   committed device row, alert_history, interfaces,*)
(*                         interface_metrics                               *)
(*   ld, dev, dirty        device attributes as loaded / as they are now,  *)
(*                         and the attributes already flushed              *)
(*   new, clr              alert_history rows inserted by the session and  *)
(*                         ids of rows it auto-cleared, not yet committed  *)
(*   ifs, ms               the session's interfaces / interface_metrics    *)
(*   mrows, rows           committed metric rows of the pass; metric rows   *)
(*                         the session has added, not yet committed        *)
(*   poll_time             the poll_time argument of the task              *)
(*   threads, log          e-mail threads started; _notify calls made      *)
(***************************************************************************)

\* Session.flush: attributes that differ from their loaded value are written
Flush(c) ==
    LET changed == {f \in DOMAIN c.dev : c.dev[f] # c.ld[f]} IN
    [c EXCEPT !.dirty = @ \cup changed, !.ld = c.dev]

\* AlertHistoryService.record_auto_clear
record_auto_clear(rec) ==
    [rec EXCEPT !.cleared_at = STAMP, !.action_taken = "auto_cleared",
                !.action_at = STAMP, !.action_by = NULL]

\* AlertHistoryService.record_user_action; no endpoint and no service calls it
record_user_action(rec, action, user_id) ==
    [rec EXCEPT !.action_taken = action, !.action_at = STAMP, !.action_by = user_id,
                !.cleared_at = IF action = "resolved" THEN STAMP ELSE @]

\* AlertHistoryService.update_email_status
update_email_status(rec, success) ==
    [rec EXCEPT !.email_status = IF success THEN "success" ELSE "failed"]

\* Session.commit: flush, make the transaction durable, expire every object
Commit(c) ==
    LET f1 == Flush(c)
        row == [f \in DOMAIN c.db |-> IF f \in f1.dirty THEN f1.dev[f] ELSE c.db[f]]
        old == [i \in 1..Len(c.hist) |->
                   IF i \in c.clr THEN record_auto_clear(c.hist[i]) ELSE c.hist[i]]
    IN [c EXCEPT !.db = row, !.ld = row, !.dev = row, !.dirty = {},
                 !.hist = old \o c.new, !.new = <<>>, !.clr = {},
                 !.ifdb = c.ifs, !.mdb = c.ms,
                 !.mrows = c.mrows \cup c.rows, !.rows = {}]

\* Session.rollback: drop the transaction, expire every object
Rollback(c) ==
    [c EXCEPT !.ld = c.db, !.dev = c.db, !.dirty = {},
              !.new = <<>>, !.clr = {}, !.ifs = c.ifdb, !.ms = c.mdb, !.rows = {}]

\* the alert_history rows the session's queries see
Visible(c) ==
    [i \in 1..Len(c.hist) |->
        IF i \in c.clr THEN record_auto_clear(c.hist[i]) ELSE c.hist[i]] \o c.new

\* AlertHistoryService.create_alert_record; the new row gets id LastId(c)
create_alert_record(c, alert_type, severity, device_id, interface_id) ==
    Flush([c EXCEPT !.new = Append(@,
        [alert_type |-> alert_type, severity |-> severity, device_id |-> device_id,
         interface_id |-> interface_id, email_status |-> "pending",
         cleared_at |-> NULL, action_taken |-> NULL, action_at |-> NULL,
         action_by |-> NULL])])

LastId(c) == Len(c.hist) + Len(c.new)

\* AlertHistoryService.get_active_alert_record: id of the row, 0 for None.
\* The query has no ORDER BY; .first() is the row with the lowest id.
get_active_alert_record(c, alert_type, device_id, interface_id) ==
    LET v == Visible(c)
        open == {i \in 1..Len(v) : /\ v[i].alert_type = alert_type
                                   /\ v[i].device_id = device_id
                                   /\ v[i].interface_id = interface_id
                                   /\ v[i].cleared_at = NULL}
    IN IF open = {} THEN 0 ELSE CHOOSE i \in open : \A j \in open : i <= j

\* record_auto_clear applied to the alert_history row `id` inside the session
ClearRecord(c, id) ==
    IF id <= Len(c.hist)
    THEN [c EXCEPT !.clr = @ \cup {id}]
    ELSE [c EXCEPT !.new[id - Len(c.hist)] = record_auto_clear(@)]

\* AlertEvaluator._notify.  kind is "alert" or "recovery", what the subject
\* line says; ids are the alert_records passed in.
_notify(c, kind, alert_type, ids) ==
    LET c1 == [c EXCEPT !.log = Append(@, [kind |-> kind, alert_type |-> alert_type,
                                            sent |-> c.recipients])]
    IN IF ~c.recipients
       THEN IF ids # {}
            THEN Commit([c1 EXCEPT !.new =
                    [i \in 1..Len(c1.new) |->
                        IF (Len(c1.hist) + i) \in ids
                        THEN update_email_status(c1.new[i], FALSE)
                        ELSE c1.new[i]]])
            ELSE c1
       ELSE IF ids # {}
            THEN [c1 EXCEPT !.threads = @ (+) SetToBag({ids})]
            ELSE c1

(***************************************************************************)
(* Alert engine: device-level evaluators (services/alert_service.py)       *)
(***************************************************************************)

\* `device.maintenance_mode and device.maintenance_until`
InMaintenance(device) ==
    device.maintenance_mode /\ device.maintenance_until # NoTime

\* the window is still open at time t
MaintenanceActive(device, t) ==
    InMaintenance(device) /\ t < device.maintenance_until

\* a variant of Severity with the Critical boundary at 85
SeverityFrom85(current_val) ==
    IF current_val >= 85 THEN "Critical"
    ELSE IF current_val >= 75 THEN "High"
    ELSE "Warning"

\* evaluate_cpu line 94 / evaluate_memory line 236
Severity(current_val) ==
    IF current_val >= 90 THEN "Critical"
    ELSE IF current_val >= 75 THEN "High"
    ELSE "Warning"

\* breach branch of an evaluator, state clear: record, notification, state
TriggerAlert(c, m, severity) ==
    LET c1 == create_alert_record(c, m, severity, c.d, NoIf)
        c2 == _notify(c1, "alert", m, {LastId(c1)})
    IN [c2 EXCEPT !.dev[StateField(m)] = "triggered",
                  !.dev[SentField(m)] = TRUE]

\* recovery branch of an evaluator, state triggered or acknowledged
RecoverAlert(c, m) ==
    LET id == get_active_alert_record(c, m, c.d, NoIf)
        c1 == IF id # 0 THEN ClearRecord(c, id) ELSE c
        c2 == _notify(c1, "recovery", m, {})
    IN [c2 EXCEPT !.dev[StateField(m)] = "clear",
                  !.dev[AckField(m)] = NULL,
                  !.dev[SentField(m)] = FALSE]

\* a variant of EvaluateState that alerts again on an acknowledged breach
EvaluateStateRearm(c, m, breaching, severity) ==
    IF breaching
    THEN IF c.dev[StateField(m)] \in {"clear", "acknowledged"}
         THEN TriggerAlert(c, m, severity)
         ELSE c
    ELSE IF c.dev[StateField(m)] \in {"triggered", "acknowledged"}
         THEN RecoverAlert(c, m)
         ELSE c

\* the threshold part shared by the three evaluators
EvaluateState(c, m, breaching, severity) ==
    IF breaching
    THEN IF c.dev[StateField(m)] = "clear" THEN TriggerAlert(c, m, severity) ELSE c
    ELSE IF c.dev[StateField(m)] \in {"triggered", "acknowledged"}
         THEN RecoverAlert(c, m)
         ELSE c

\* AlertEvaluator.evaluate_cpu
evaluate_cpu(c, current_val, t) ==
    IF InMaintenance(c.dev)
    THEN IF t < c.dev.maintenance_until
         THEN c
         ELSE EvaluateState([c EXCEPT !.dev.maintenance_mode = FALSE,
                                      !.dev.maintenance_until = NoTime,
                                      !.dev.maintenance_reason = NULL],
                            "cpu", current_val > c.dev.cpu_threshold,
                            Severity(current_val))
    ELSE EvaluateState(c, "cpu", current_val > c.dev.cpu_threshold,
                       Severity(current_val))

\* a variant of evaluate_memory without the maintenance check
evaluate_memory_unsuppressed(c, current_val, t) ==
    EvaluateState(c, "memory", current_val > c.dev.memory_threshold,
                  Severity(current_val))

\* AlertEvaluator.evaluate_memory
evaluate_memory(c, current_val, t) ==
    IF InMaintenance(c.dev) /\ t < c.dev.maintenance_until
    THEN c
    ELSE EvaluateState(c, "memory", current_val > c.dev.memory_threshold,
                       Severity(current_val))

\* AlertEvaluator.evaluate_reachability
evaluate_reachability(c, t) ==
    IF InMaintenance(c.dev) /\ t < c.dev.maintenance_until
    THEN c
    ELSE EvaluateState(c, "reachability", ~c.dev.is_reachable, "Critical")

(***************************************************************************)
(* Alert engine: interface evaluators                                      *)
(***************************************************************************)

\* Interface.packet_drop_threshold default 0.1 (percent), held in tenths
PacketDropThresholdTenths == 1

\* models.Interface: the row poll_interfaces inserts
NewInterface(device_id, if_index) ==
    [device_id |-> device_id, if_index |-> if_index,
     oper_status_alert_state |-> "clear", oper_status_acknowledged_at |-> NULL,
     oper_status_alert_sent |-> FALSE,
     packet_drop_alert_state |-> "clear", packet_drop_acknowledged_at |-> NULL,
     packet_drop_alert_sent |-> FALSE,
     packet_drop_threshold |-> PacketDropThresholdTenths]

\* a counter column that holds None
NoCount == -1

\* get_safe_delta with the difference taken whatever its sign
get_safe_delta_signed(curr, prev) ==
    IF curr = NoCount \/ prev = NoCount
    THEN 0
    ELSE curr - prev

\* _check_packet_drops.get_safe_delta
get_safe_delta(curr, prev) ==
    IF curr = NoCount \/ prev = NoCount
    THEN 0
    ELSE IF curr - prev < 0 THEN 0 ELSE curr - prev

\* _check_packet_drops lines 748-750
TotalDropDelta(latest, previous) ==
    get_safe_delta(latest.discards_in, previous.discards_in)
    + get_safe_delta(latest.discards_out, previous.discards_out)

\* the packet delta over the unicast columns alone
TotalPacketDeltaUnicast(latest, previous) ==
    get_safe_delta(latest.packets_in, previous.packets_in)
    + get_safe_delta(latest.packets_out, previous.packets_out)

\* _check_packet_drops lines 752-765: unicast + multicast + broadcast
TotalPacketDelta(latest, previous) ==
    get_safe_delta(latest.packets_in, previous.packets_in)
    + get_safe_delta(latest.packets_out, previous.packets_out)
    + get_safe_delta(latest.multicast_packets_in, previous.multicast_packets_in)
    + get_safe_delta(latest.multicast_packets_out, previous.multicast_packets_out)
    + get_safe_delta(latest.broadcast_packets_in, previous.broadcast_packets_in)
    + get_safe_delta(latest.broadcast_packets_out, previous.broadcast_packets_out)

TotalEvents(latest, previous) ==
    TotalPacketDelta(latest, previous) + TotalDropDelta(latest, previous)

\* _check_packet_drops lines 770-777: the rate in percent, the fraction
\* num / den
discard_rate(latest, previous) ==
    IF TotalEvents(latest, previous) = 0
    THEN [num |-> 0, den |-> 1]
    ELSE [num |-> TotalDropDelta(latest, previous) * 100,
          den |-> TotalEvents(latest, previous)]

\* discard_rate > interface.packet_drop_threshold, the threshold in tenths
IsExceeded(latest, previous, tenths) ==
    discard_rate(latest, previous).num * 10 > tenths * discard_rate(latest, previous).den

\* _check_packet_drops line 785
DropSeverity(latest, previous) ==
    IF discard_rate(latest, previous).num >= 5 * discard_rate(latest, previous).den
    THEN "Critical"
    ELSE IF discard_rate(latest, previous).num >= discard_rate(latest, previous).den
         THEN "High"
         ELSE "Warning"

\* ids of the interfaces of a device, as `device.interfaces` lists them
InterfacesOf(ifs, device_id) ==
    {i \in 1..Len(ifs) : ifs[i].device_id = device_id}

\* _check_oper_status without the look at the previous sample
_check_oper_status_unedged(c, i, metrics) ==
    LET interface == c.ifs[i]
        is_down == metrics[1].oper_status # 1
    IN IF is_down
       THEN IF interface.oper_status_alert_state = "clear"
            THEN LET c1 == create_alert_record(c, "interface_status", "High", c.d, i)
                 IN [c |-> [c1 EXCEPT !.ifs[i].oper_status_alert_state = "triggered",
                                      !.ifs[i].oper_status_alert_sent = TRUE],
                     msg |-> "DOWN", rec |-> LastId(c1)]
            ELSE [c |-> c, msg |-> "none", rec |-> 0]
       ELSE IF interface.oper_status_alert_state \in {"triggered", "acknowledged"}
            THEN LET id == get_active_alert_record(c, "interface_status", c.d, i)
                     c1 == IF id # 0 THEN ClearRecord(c, id) ELSE c
                 IN [c |-> [c1 EXCEPT !.ifs[i].oper_status_alert_state = "clear",
                                      !.ifs[i].oper_status_acknowledged_at = NULL,
                                      !.ifs[i].oper_status_alert_sent = FALSE],
                     msg |-> "UP", rec |-> 0]
            ELSE [c |-> c, msg |-> "none", rec |-> 0]

\* AlertEvaluator._check_oper_status: the session after the check, the kind
\* of message returned ("DOWN", "UP" or "none") and the record id (0: None)
_check_oper_status(c, i, metrics) ==
    LET interface == c.ifs[i]
        latest_metric == metrics[1]
        is_down == latest_metric.oper_status # 1
    IN IF is_down
       THEN IF /\ interface.oper_status_alert_state = "clear"
               /\ Len(metrics) > 1
               /\ metrics[2].oper_status = 1
            THEN LET c1 == create_alert_record(c, "interface_status", "High", c.d, i)
                 IN [c |-> [c1 EXCEPT !.ifs[i].oper_status_alert_state = "triggered",
                                      !.ifs[i].oper_status_alert_sent = TRUE],
                     msg |-> "DOWN", rec |-> LastId(c1)]
            ELSE [c |-> c, msg |-> "none", rec |-> 0]
       ELSE IF interface.oper_status_alert_state \in {"triggered", "acknowledged"}
            THEN LET id == get_active_alert_record(c, "interface_status", c.d, i)
                     c1 == IF id # 0 THEN ClearRecord(c, id) ELSE c
                 IN [c |-> [c1 EXCEPT !.ifs[i].oper_status_alert_state = "clear",
                                      !.ifs[i].oper_status_acknowledged_at = NULL,
                                      !.ifs[i].oper_status_alert_sent = FALSE],
                     msg |-> "UP", rec |-> 0]
            ELSE [c |-> c, msg |-> "none", rec |-> 0]

\* AlertEvaluator._check_packet_drops: as above, messages "high discard",
\* "normal" or "none"
_check_packet_drops(c, i, metrics) ==
    IF Len(metrics) < 2
    THEN [c |-> c, msg |-> "none", rec |-> 0]
    ELSE
    LET interface == c.ifs[i]
        is_exceeded == IsExceeded(metrics[1], metrics[2], interface.packet_drop_threshold)
    IN IF is_exceeded
       THEN IF interface.packet_drop_alert_state = "clear"
            THEN LET c1 == create_alert_record(c, "packet_drop",
                                DropSeverity(metrics[1], metrics[2]), c.d, i)
                 IN [c |-> [c1 EXCEPT !.ifs[i].packet_drop_alert_state = "triggered",
                                      !.ifs[i].packet_drop_alert_sent = TRUE],
                     msg |-> "high discard", rec |-> LastId(c1)]
            ELSE [c |-> c, msg |-> "none", rec |-> 0]
       ELSE IF interface.packet_drop_alert_state \in {"triggered", "acknowledged"}
            THEN LET id == get_active_alert_record(c, "packet_drop", c.d, i)
                     c1 == IF id # 0 THEN ClearRecord(c, id) ELSE c
                 IN [c |-> [c1 EXCEPT !.ifs[i].packet_drop_alert_state = "clear",
                                      !.ifs[i].packet_drop_acknowledged_at = NULL,
                                      !.ifs[i].packet_drop_alert_sent = FALSE],
                     msg |-> "normal", rec |-> 0]
            ELSE [c |-> c, msg |-> "none", rec |-> 0]

\* evaluate_interfaces lines 519-555: the loop over device.interfaces.
\* acc holds the session and the three lists the loop fills.
RECURSIVE EvaluateEach(_, _)
EvaluateEach(acc, todo) ==
    IF todo = {} THEN acc
    ELSE
    LET i == CHOOSE x \in todo : \A y \in todo : x <= y
        metrics == acc.c.ms[i]
    IN IF metrics = <<>>
       THEN EvaluateEach(acc, todo \ {i})
       ELSE
       LET s == _check_oper_status(acc.c, i, metrics)
           p == _check_packet_drops(s.c, i, metrics)
           recs == {s.rec, p.rec} \ {0}
           alerts == (IF s.msg = "DOWN" THEN 1 ELSE 0)
                     + (IF p.msg = "high discard" THEN 1 ELSE 0)
           recoveries == (IF s.msg = "UP" THEN 1 ELSE 0)
                         + (IF p.msg = "normal" THEN 1 ELSE 0)
       IN EvaluateEach([c |-> p.c,
                        alerts_triggered |-> acc.alerts_triggered + alerts,
                        alert_records |-> acc.alert_records \cup recs,
                        recoveries_triggered |-> acc.recoveries_triggered + recoveries],
                       todo \ {i})

\* AlertEvaluator.evaluate_interfaces
evaluate_interfaces(c) ==
    LET r == EvaluateEach([c |-> c, alerts_triggered |-> 0, alert_records |-> {},
                           recoveries_triggered |-> 0],
                          InterfacesOf(c.ifs, c.d))
        c1 == IF r.alerts_triggered > 0
              THEN _notify(r.c, "alert", "interface", r.alert_records)
              ELSE r.c
    IN IF r.recoveries_triggered > 0
       THEN _notify(c1, "recovery", "interface", {})
       ELSE c1

\* clear_interface_alerts
clear_interface_alerts(c) ==
    [c EXCEPT !.ifs = [i \in 1..Len(c.ifs) |->
        IF /\ c.ifs[i].device_id = c.d
           /\ \/ c.ifs[i].oper_status_alert_state # "clear"
              \/ c.ifs[i].packet_drop_alert_state # "clear"
        THEN [c.ifs[i] EXCEPT !.oper_status_alert_state = "clear",
                              !.oper_status_acknowledged_at = NULL,
                              !.packet_drop_alert_state = "clear",
                              !.packet_drop_acknowledged_at = NULL,
                              !.oper_status_alert_sent = FALSE,
                              !.packet_drop_alert_sent = FALSE]
        ELSE c.ifs[i]]]

\* poll_interfaces lines 230-233: existing_interfaces[idx], 0 if absent
ExistingInterface(ifs, device_id, idx) ==
    LET found == {i \in InterfacesOf(ifs, device_id) : ifs[i].if_index = idx}
    IN IF found = {} THEN 0 ELSE CHOOSE i \in found : \A j \in found : j <= i

\* a row of device_metrics (if_index NoIf) or interface_metrics, by the
\* columns that identify it and its timestamp
MetricRow(table, device_id, if_index, timestamp) ==
    [table |-> table, device_id |-> device_id, if_index |-> if_index,
     timestamp |-> timestamp]

\* services/device_service.insert_device_metric(metric, repo, timestamp):
\* one device_metrics row with the given timestamp is added to the session
insert_device_metric(c, timestamp) ==
    [c EXCEPT !.rows = @ \cup {MetricRow("device_metrics", c.d, NoIf, timestamp)}]

\* a variant of StoreInterfaceMetric that looks up no existing row
StoreInterfaceMetricInserts(c, idx, sample) ==
    LET c1 == [c EXCEPT !.ifs = Append(@, NewInterface(c.d, idx)),
                        !.ms = Append(@, <<>>)]
        id == Len(c1.ifs)
    IN [c1 EXCEPT !.ms[id] = IF @ = <<>> THEN <<sample>> ELSE <<sample, @[1]>>,
                  !.rows = @ \cup {MetricRow("interface_metrics", c.d, idx, c.poll_time)}]

\* a variant of StoreInterfaceMetric that stamps the row with the clock
StoreInterfaceMetricNow(c, idx, sample) ==
    LET e == ExistingInterface(c.ifs, c.d, idx)
        c1 == IF e = 0
              THEN [c EXCEPT !.ifs = Append(@, NewInterface(c.d, idx)),
                             !.ms = Append(@, <<>>)]
              ELSE c
        id == IF e = 0 THEN Len(c1.ifs) ELSE e
    IN [c1 EXCEPT !.ms[id] = IF @ = <<>> THEN <<sample>> ELSE <<sample, @[1]>>,
                  !.rows = @ \cup {MetricRow("interface_metrics", c.d, idx, now)}]

\* poll_interfaces lines 235-289: one entry of interfaces_data
StoreInterfaceMetric(c, idx, sample) ==
    LET e == ExistingInterface(c.ifs, c.d, idx)
        c1 == IF e = 0
              THEN [c EXCEPT !.ifs = Append(@, NewInterface(c.d, idx)),
                             !.ms = Append(@, <<>>)]
              ELSE c
        id == IF e = 0 THEN Len(c1.ifs) ELSE e
    IN [c1 EXCEPT !.ms[id] = IF @ = <<>> THEN <<sample>> ELSE <<sample, @[1]>>,
                  !.rows = @ \cup {MetricRow("interface_metrics", c.d, idx, c.poll_time)}]

RECURSIVE StoreAll(_, _)
StoreAll(c, data) ==
    IF DOMAIN data = {} THEN c
    ELSE LET idx == CHOOSE x \in DOMAIN data : \A y \in DOMAIN data : x <= y
         IN StoreAll(StoreInterfaceMetric(c, idx, data[idx]),
                     [k \in DOMAIN data \ {idx} |-> data[k]])

\* poll_interfaces from the return of bulk_snmp_walk to its end
poll_interfaces(c, result) ==
    IF ~result.success THEN c
    ELSE evaluate_interfaces(StoreAll(c, result.data))

(***************************************************************************)
(* Alert engine: one polling pass (services/polling_service.py)            *)
(***************************************************************************)

\* application_settings.polling_concurrency
PollingConcurrency == 2

\* consecutive_failures is followed up to this value
MaxFailures == FailureThreshold + 1

\* MaintenanceModeUpdate.duration_minutes of the requests, in clock ticks
Durations == {1}

\* Positions of the limited_polling task of a device:
\*   "idle"       no pass is running
\*   "queued"     created by gather, waiting on `async with semaphore`
\*   "get"        suspended in poll_device on `await get_snmp_data`
\*   "evaluated"  poll_device line 178, the evaluators have run
\*   "failed"     poll_device has returned False
\*   "walk"       suspended in poll_interfaces on `await bulk_snmp_walk`
\*   "walked"     poll_interfaces has returned
\*   "done"       the session is closed and the task has returned
TaskPcs == {"idle", "queued", "get", "evaluated", "failed", "walk", "walked", "done"}

\* a task that holds no session; runs counts how often the pass has let
\* the task through its gate
NoTask(pc) ==
    [pc |-> pc, ld |-> NULL, dev |-> NULL, dirty |-> {}, new |-> <<>>, clr |-> {},
     ifs |-> <<>>, ms |-> <<>>, rows |-> {}, session |-> "none", runs |-> 0]

\* limited_polling line 336: `task_db = database.SessionLocal()`
SessionLocal(t) ==
    [t EXCEPT !.session = "open", !.runs = @ + 1]

\* a variant of close that leaves the session as it is
close_skipped(t) ==
    [NoTask("done") EXCEPT !.session = t.session, !.runs = t.runs]

\* limited_polling lines 362-363: `finally: task_db.close()`, and the task
\* returns
close(t) ==
    [NoTask("done") EXCEPT !.session = "closed", !.runs = t.runs]

\* the last step: the operation, its device, metric and interface index, the
\* alert columns it found (a request), the reply it got (a poll), the HTTP
\* status it answered and the _notify calls it made
NoEvent ==
    [op |-> "none", d |-> 0, m |-> NULL, idx |-> 0, pre |-> NULL, res |-> NULL,
     status |-> 0, log |-> <<>>]

Request(op, d, m, idx, pre, status) ==
    [op |-> op, d |-> d, m |-> m, idx |-> idx, pre |-> pre, res |-> NULL,
     status |-> status, log |-> <<>>]

Polled(op, d, res, status, log) ==
    [op |-> op, d |-> d, m |-> NULL, idx |-> 0, pre |-> NULL, res |-> res,
     status |-> status, log |-> log]

\* the three alert columns of metric m in a device or interface row
AlertOf(row, m) ==
    [state |-> row[StateField(m)], acknowledged_at |-> row[AckField(m)],
     alert_sent |-> row[SentField(m)]]

\* no pass is running
NoCycle ==
    [active |-> FALSE, successful_polls |-> 0, failed_polls |-> 0, timestamp |-> 0,
     device_ids |-> {}]

\* a task is between two statements that no await separates: only it and
\* the e-mail threads can run
Quiescent == \A d \in DeviceIds : task[d].pc \notin {"evaluated", "failed", "walked"}

Running == {d \in DeviceIds : task[d].pc \in {"get", "evaluated", "failed", "walk", "walked"}}

\* the session of the task of device d, and the tables as they are now
Ctx(d) ==
    [d |-> d, db |-> devices[d], hist |-> alert_history,
     ifdb |-> interfaces, mdb |-> if_metrics,
     ld |-> task[d].ld, dev |-> task[d].dev, dirty |-> task[d].dirty,
     new |-> task[d].new, clr |-> task[d].clr,
     ifs |-> IF task[d].pc = "walked" THEN task[d].ifs ELSE interfaces,
     ms |-> IF task[d].pc = "walked" THEN task[d].ms ELSE if_metrics,
     rows |-> task[d].rows, mrows |-> metric_rows, poll_time |-> cycle.timestamp,
     recipients |-> recipients, threads |-> mail_threads, log |-> <<>>]

\* the tables and the task of device d after a step that ends in c at pc
Store(c, pc) ==
    /\ devices' = [devices EXCEPT ![c.d] = c.db]
    /\ alert_history' = c.hist
    /\ interfaces' = c.ifdb
    /\ if_metrics' = c.mdb
    /\ mail_threads' = c.threads
    /\ metric_rows' = c.mrows
    /\ task' = [task EXCEPT ![c.d] =
                  IF pc = "done" THEN close(task[c.d])
                  ELSE [pc |-> pc, ld |-> c.ld, dev |-> c.dev, dirty |-> c.dirty,
                        new |-> c.new, clr |-> c.clr,
                        ifs |-> IF pc = "walked" THEN c.ifs ELSE <<>>,
                        ms |-> IF pc = "walked" THEN c.ms ELSE <<>>,
                        rows |-> c.rows, session |-> task[c.d].session,
                        runs |-> task[c.d].runs]]

\* perform_full_poll lines 309-366: the pass starts and gathers its tasks;
\* with no device it returns at once
StartFullPoll ==
    /\ ~cycle.active
    /\ present # {}
    /\ cycle' = [active |-> TRUE, successful_polls |-> 0, failed_polls |-> 0,
                 timestamp |-> now, device_ids |-> present]
    /\ task' = [d \in DeviceIds |->
                  IF d \in present THEN NoTask("queued") ELSE NoTask("idle")]
    /\ metric_rows' = {}
    /\ ev' = NoEvent
    /\ UNCHANGED <<coordVars, now, devices, interfaces, if_metrics, alert_history,
                   recipients, agent, mail_threads, run_alerts>>
    /\ UNCHANGED scanVars

\* limited_polling lines 335-344 and poll_device lines 93-106
TaskStart(d) ==
    /\ Quiescent
    /\ task[d].pc = "queued"
    /\ Cardinality(Running) < PollingConcurrency
    /\ IF d \in present
       THEN /\ task' = [task EXCEPT ![d] =
                           [SessionLocal(task[d]) EXCEPT !.pc = "get",
                                                         !.ld = devices[d],
                                                         !.dev = devices[d]]]
            /\ ev' = NoEvent
       ELSE /\ task' = [task EXCEPT ![d] = close(SessionLocal(task[d]))]
            /\ ev' = Polled("device_not_found", d, NULL, 0, <<>>)
    /\ UNCHANGED <<coordVars, now, devices, interfaces, if_metrics, alert_history,
                   recipients, agent, mail_threads, cycle, run_alerts>>
    /\ UNCHANGED passVars

\* poll_device lines 186-191
ExceptHandler(c) ==
    Rollback([c EXCEPT !.dev.consecutive_failures = @ + 1])

\* poll_device lines 108-125
PollFailure(c, t) ==
    LET c1 == [c EXCEPT !.dev.consecutive_failures = @ + 1]
        c2 == IF /\ c1.dev.consecutive_failures >= c1.dev.failure_threshold
                 /\ c1.dev.is_reachable
              THEN [c1 EXCEPT !.dev.is_reachable = FALSE]
              ELSE c1
    IN evaluate_reachability(c2, t)

\* poll_device lines 128-137
PollReachable(c, t) ==
    evaluate_reachability([c EXCEPT !.dev.consecutive_failures = 0,
                                    !.dev.is_reachable = TRUE], t)

\* poll_device lines 128-176
PollSuccess(c, cpu_val, mem_val, t) ==
    evaluate_memory(evaluate_cpu(PollReachable(c, t), cpu_val, t), mem_val, t)

\* the reply shows metric m breaching: a value above the threshold, or a
\* failed poll of a device that is (now) marked unreachable
Breaching(m, result, device) ==
    CASE m = "cpu" -> result.kind = "success" /\ result.cpu > device.cpu_threshold
      [] m = "memory" -> result.kind = "success" /\ result.mem > device.memory_threshold
      [] m = "reachability" -> result.kind = "failure" /\ ~device.is_reachable
      [] OTHER -> FALSE

\* the _notify calls of a log that announce an alert of type m
Alerts(log, m) ==
    Cardinality({i \in 1..Len(log) : log[i].kind = "alert" /\ log[i].alert_type = m})

\* those of them that reached a recipient list
SentAlerts(log, m) ==
    Cardinality({i \in 1..Len(log) : /\ log[i].kind = "alert"
                                     /\ log[i].alert_type = m
                                     /\ log[i].sent})

Recoveries(log, m) ==
    Cardinality({i \in 1..Len(log) : log[i].kind = "recovery" /\ log[i].alert_type = m})

\* poll_device from the return of get_snmp_data to line 178, or to its
\* return when the poll failed or raised
TaskEvaluate(d, result) ==
    /\ Quiescent
    /\ task[d].pc = "get"
    /\ result.kind = "failure" => task[d].dev.consecutive_failures < MaxFailures
    /\ \E c \in {CASE result.kind = "failure" -> PollFailure(Ctx(d), now)
                  [] result.kind = "raise" -> ExceptHandler(Ctx(d))
                  [] result.kind = "garbage" -> ExceptHandler(PollReachable(Ctx(d), now))
                  [] result.kind = "success" ->
                        PollSuccess(Ctx(d), result.cpu, result.mem, now)} :
          /\ LastId(c) <= MaxAlerts
          /\ BagCardinality(c.threads) <= MaxAlerts
          /\ Store(c, IF result.kind = "success" THEN "evaluated" ELSE "failed")
          /\ ev' = Polled("poll_device", d, result, 0, c.log)
          /\ run_alerts' =
                IF Breaching(agent, result, c.dev) /\ ~MaintenanceActive(task[d].dev, now)
                THEN IF run_alerts + SentAlerts(c.log, agent) > MaxAlerts
                     THEN MaxAlerts
                     ELSE run_alerts + SentAlerts(c.log, agent)
                ELSE 0
    /\ UNCHANGED <<coordVars, now, recipients, agent, cycle>>
    /\ UNCHANGED scanVars

\* a variant of TaskSaveMetric that goes on to the interfaces after a raise
TaskSaveMetricWalksOn(d, raises) ==
    /\ task[d].pc = "evaluated"
    /\ \E c \in {IF raises THEN ExceptHandler(Ctx(d))
                  ELSE insert_device_metric(Ctx(d), Ctx(d).poll_time)} :
          /\ Store(c, "walk")
          /\ ev' = Polled("insert_device_metric", d, NULL, IF raises THEN 500 ELSE 0, <<>>)
    /\ UNCHANGED <<coordVars, now, recipients, agent, cycle, run_alerts>>
    /\ UNCHANGED scanVars

\* poll_device lines 179-184: the metric row is validated and inserted; then
\* limited_polling line 348 and poll_interfaces lines 209-218
TaskSaveMetric(d, raises) ==
    /\ task[d].pc = "evaluated"
    /\ \E c \in {IF raises THEN ExceptHandler(Ctx(d))
                  ELSE insert_device_metric(Ctx(d), Ctx(d).poll_time)} :
          /\ Store(c, IF raises THEN "failed" ELSE "walk")
          /\ ev' = Polled("insert_device_metric", d, NULL, IF raises THEN 500 ELSE 0, <<>>)
    /\ UNCHANGED <<coordVars, now, recipients, agent, cycle, run_alerts>>
    /\ UNCHANGED scanVars

\* limited_polling lines 350-363 after poll_device returned False
TaskPollFailed(d, commit_ok) ==
    /\ task[d].pc = "failed"
    /\ \E c0 \in {Ctx(d)} :
       \E c1 \in {IF ~c0.dev.is_reachable THEN clear_interface_alerts(c0) ELSE c0} :
       \E c2 \in {IF commit_ok THEN Commit(c1) ELSE Rollback(c1)} :
          /\ Store(c2, "done")
          /\ cycle' = [cycle EXCEPT !.failed_polls = @ + (IF commit_ok THEN 1 ELSE 2)]
          /\ ev' = Polled("poll_failed", d, NULL, IF commit_ok THEN 0 ELSE 500, <<>>)
    /\ UNCHANGED <<coordVars, now, recipients, agent, run_alerts>>
    /\ UNCHANGED scanVars

\* poll_interfaces from the return of bulk_snmp_walk to its end
TaskWalkReturns(d, result) ==
    /\ Quiescent
    /\ task[d].pc = "walk"
    /\ \E c \in {poll_interfaces(Ctx(d), result)} :
          /\ LastId(c) <= MaxAlerts
          /\ BagCardinality(c.threads) <= MaxAlerts
          /\ Store(c, "walked")
          /\ ev' = Polled("poll_interfaces", d, result, 0, c.log)
    /\ UNCHANGED <<coordVars, now, recipients, agent, cycle, run_alerts>>
    /\ UNCHANGED scanVars

\* limited_polling lines 349 and 356-363 after poll_interfaces returned
TaskPollSucceeded(d, commit_ok) ==
    /\ task[d].pc = "walked"
    /\ \E c0 \in {Ctx(d)} :
       \E c1 \in {IF commit_ok THEN Commit(c0) ELSE Rollback(c0)} :
          /\ Store(c1, "done")
          /\ cycle' = [cycle EXCEPT !.successful_polls = @ + 1,
                                    !.failed_polls = @ + (IF commit_ok THEN 0 ELSE 1)]
          /\ ev' = Polled("poll_succeeded", d, NULL, IF commit_ok THEN 0 ELSE 500, <<>>)
    /\ UNCHANGED <<coordVars, now, recipients, agent, run_alerts>>
    /\ UNCHANGED scanVars

\* perform_full_poll lines 366-370: gather returns, the pass is over
EndFullPoll ==
    /\ cycle.active
    /\ \A d \in cycle.device_ids : task[d].pc = "done"
    /\ cycle' = NoCycle
    /\ task' = [d \in DeviceIds |-> NoTask("idle")]
    /\ metric_rows' = {}
    /\ ev' = NoEvent
    /\ UNCHANGED <<coordVars, now, devices, interfaces, if_metrics, alert_history,
                   recipients, agent, mail_threads, run_alerts>>
    /\ UNCHANGED scanVars

(***************************************************************************)
(* User requests (app/api/v1/endpoints/devices.py), the clock and the      *)
(* e-mail threads                                                          *)
(***************************************************************************)

\* a variant of acknowledge_alert without the test of the state
acknowledge_unchecked(d, m) ==
    /\ Quiescent
    /\ devices' = [devices EXCEPT ![d][StateField(m)] = "acknowledged",
                                  ![d][AckField(m)] = STAMP]
    /\ ev' = Request("acknowledge", d, m, 0, AlertOf(devices[d], m), 200)
    /\ UNCHANGED <<coordVars, now, interfaces, if_metrics, alert_history, recipients,
                   agent, mail_threads, cycle, task, run_alerts>>
    /\ UNCHANGED passVars

\* a variant of resolve_alert that leaves the alert-sent flag
resolve_keep_sent(d, m) ==
    /\ Quiescent
    /\ devices' = [devices EXCEPT ![d][StateField(m)] = "clear",
                                  ![d][AckField(m)] = NULL]
    /\ ev' = Request("resolve", d, m, 0, AlertOf(devices[d], m), 200)
    /\ run_alerts' = IF m = agent THEN 0 ELSE run_alerts
    /\ UNCHANGED <<coordVars, now, interfaces, if_metrics, alert_history, recipients,
                   agent, mail_threads, cycle, task>>
    /\ UNCHANGED passVars

\* acknowledge_cpu_alert, acknowledge_memory_alert,
\* acknowledge_reachability_alert
acknowledge_alert(d, m) ==
    /\ Quiescent
    /\ IF devices[d][StateField(m)] # "triggered"
       THEN /\ ev' = Request("acknowledge", d, m, 0, AlertOf(devices[d], m), 400)
            /\ UNCHANGED devices
       ELSE /\ devices' = [devices EXCEPT ![d][StateField(m)] = "acknowledged",
                                          ![d][AckField(m)] = STAMP]
            /\ ev' = Request("acknowledge", d, m, 0, AlertOf(devices[d], m), 200)
    /\ UNCHANGED <<coordVars, now, interfaces, if_metrics, alert_history, recipients,
                   agent, mail_threads, cycle, task, run_alerts>>
    /\ UNCHANGED passVars

\* resolve_cpu_alert, resolve_memory_alert, resolve_reachability_alert
resolve_alert(d, m) ==
    /\ Quiescent
    /\ devices' = [devices EXCEPT ![d][StateField(m)] = "clear",
                                  ![d][AckField(m)] = NULL,
                                  ![d][SentField(m)] = FALSE]
    /\ ev' = Request("resolve", d, m, 0, AlertOf(devices[d], m), 200)
    /\ run_alerts' = IF m = agent THEN 0 ELSE run_alerts
    /\ UNCHANGED <<coordVars, now, interfaces, if_metrics, alert_history, recipients,
                   agent, mail_threads, cycle, task>>
    /\ UNCHANGED passVars

\* the interface the endpoints look up: .first() of the matching rows
FindInterface(d, if_index) ==
    LET found == {i \in InterfacesOf(interfaces, d) : interfaces[i].if_index = if_index}
    IN IF found = {} THEN 0 ELSE CHOOSE i \in found : \A j \in found : i <= j

\* acknowledge_interface_status_alert, acknowledge_interface_drops_alert
acknowledge_interface_alert(d, if_index, m) ==
    /\ Quiescent
    /\ LET i == FindInterface(d, if_index) IN
       IF i = 0
       THEN /\ ev' = Request("acknowledge", d, m, if_index, NULL, 404)
            /\ UNCHANGED interfaces
       ELSE IF interfaces[i][StateField(m)] # "triggered"
       THEN /\ ev' = Request("acknowledge", d, m, if_index, AlertOf(interfaces[i], m), 400)
            /\ UNCHANGED interfaces
       ELSE /\ interfaces' = [interfaces EXCEPT ![i][StateField(m)] = "acknowledged",
                                                ![i][AckField(m)] = STAMP]
            /\ ev' = Request("acknowledge", d, m, if_index, AlertOf(interfaces[i], m), 200)
    /\ UNCHANGED <<coordVars, now, devices, if_metrics, alert_history, recipients,
                   agent, mail_threads, cycle, task, run_alerts>>
    /\ UNCHANGED passVars

\* resolve_interface_status_alert, resolve_interface_drops_alert
resolve_interface_alert(d, if_index, m) ==
    /\ Quiescent
    /\ LET i == FindInterface(d, if_index) IN
       IF i = 0
       THEN /\ ev' = Request("resolve", d, m, if_index, NULL, 404)
            /\ UNCHANGED interfaces
       ELSE /\ interfaces' = [interfaces EXCEPT ![i][StateField(m)] = "clear",
                                                ![i][AckField(m)] = NULL,
                                                ![i][SentField(m)] = FALSE]
            /\ ev' = Request("resolve", d, m, if_index, AlertOf(interfaces[i], m), 200)
    /\ UNCHANGED <<coordVars, now, devices, if_metrics, alert_history, recipients,
                   agent, mail_threads, cycle, task, run_alerts>>
    /\ UNCHANGED passVars

\* update_maintenance_mode
update_maintenance_mode(d, enabled, duration_minutes) ==
    /\ Quiescent
    /\ devices' = [devices EXCEPT
          ![d].maintenance_mode = enabled,
          ![d].maintenance_until = IF enabled THEN now + duration_minutes ELSE NoTime,
          ![d].maintenance_reason = IF enabled THEN "planned" ELSE NULL]
    /\ ev' = Request("maintenance", d, NULL, 0, NULL, 200)
    /\ UNCHANGED <<coordVars, now, interfaces, if_metrics, alert_history, recipients,
                   agent, mail_threads, cycle, task, run_alerts>>
    /\ UNCHANGED passVars

\* DELETE /device/{ip}: services/device_service.delete_device removes the
\* row; a device whose task is inside the gate is not deleted here
delete_device(d) ==
    /\ Quiescent
    /\ d \in present
    /\ task[d].pc \in {"idle", "queued", "done"}
    /\ present' = present \ {d}
    /\ ev' = Request("delete", d, NULL, 0, NULL, 200)
    /\ UNCHANGED <<coordVars, now, devices, interfaces, if_metrics, alert_history,
                   recipients, agent, mail_threads, cycle, task, run_alerts,
                   metric_rows, discovery, inventory, walk>>

\* time passes
Tick ==
    /\ Quiescent
    /\ now < MaxNow
    /\ now' = now + 1
    /\ ev' = NoEvent
    /\ UNCHANGED <<coordVars, devices, interfaces, if_metrics, alert_history, recipients,
                   agent, mail_threads, cycle, task, run_alerts>>
    /\ UNCHANGED passVars

\* _notify.email_callback, run by the thread of send_email_background with
\* a session of its own
EmailCallback(ids, success) ==
    /\ BagIn(ids, mail_threads)
    /\ mail_threads' = mail_threads (-) SetToBag({ids})
    /\ alert_history' = [i \in 1..Len(alert_history) |->
                            IF i \in ids
                            THEN update_email_status(alert_history[i], success)
                            ELSE alert_history[i]]
    /\ ev' = Request("email_callback", 0, NULL, 0, ids, IF success THEN 200 ELSE 500)
    /\ UNCHANGED <<coordVars, now, devices, interfaces, if_metrics, recipients,
                   agent, cycle, task, run_alerts>>
    /\ UNCHANGED passVars

(***************************************************************************)
(* One discovery scan (services/discovery_service.py) and the rows that    *)
(* update_device writes for the hosts that answered.                       *)
(***************************************************************************)

\* host addresses of the scanned subnet
MaxHosts == 3
Hosts == 1..MaxHosts

\* settings.discovery_concurrency
DiscoveryConcurrency == 2

\* Positions of the limited_discovery task of a host: "idle", "queued"
\* (waiting on `async with semaphore`), "get" (suspended in device_discovery
\* on `await snmp_client.get`), "done" (returned)
NoProbe(pc) ==
    [pc |-> pc, session |-> "none", runs |-> 0, met |-> NULL, result |-> NULL]

\* MAC addresses and system names the hosts of the subnet answer with
MaxMacs == 2
Macs == 1..MaxMacs
MaxNames == 2
Names == 1..MaxNames

\* schemas.DeviceInfo built by device_discovery from the reply of host ip
DeviceInfo(ip, mac, hostname) ==
    [ip_address |-> ip, mac_address |-> mac, hostname |-> hostname]

\* Device.ip_address and Device.hostname are unique=True; mac_address is
\* indexed only
Unique(table) ==
    \A i, j \in DOMAIN table :
        i # j => /\ table[i].ip_address # table[j].ip_address
                 /\ table[i].hostname # table[j].hostname

\* the row with the lowest id among ids
First(ids) == CHOOSE i \in ids : \A j \in ids : i <= j

\* services.device_service.update_device: a row with the MAC of the device
\* takes its address and hostname, a device with an unknown MAC becomes a
\* new row; the write is refused when it breaks a unique column
update_device(table, device_info) ==
    LET known == {i \in DOMAIN table :
                     table[i].mac_address = device_info.mac_address}
        written == IF known = {}
                   THEN Append(table, device_info)
                   ELSE [table EXCEPT
                            ![First(known)].ip_address = device_info.ip_address,
                            ![First(known)].hostname = device_info.hostname]
    IN  IF Unique(written)
        THEN [ok |-> TRUE, table |-> written]
        ELSE [ok |-> FALSE, table |-> table]

NoScan ==
    [active |-> FALSE, probe |-> [h \in Hosts |-> NoProbe("idle")],
     total_scanned |-> 0, devices_found |-> 0, devices |-> {}]

Probing == {h \in Hosts : discovery.probe[h].pc = "get"}

\* perform_full_discovery lines 23-55: the network is parsed and the tasks
\* are gathered; an invalid network or subnet returns the empty result
StartDiscovery(valid) ==
    /\ ~discovery.active
    /\ discovery' = IF valid
                    THEN [NoScan EXCEPT !.active = TRUE,
                                        !.probe = [h \in Hosts |-> NoProbe("queued")]]
                    ELSE NoScan
    /\ ev' = Request("discover", 0, NULL, 0, NULL, IF valid THEN 0 ELSE 400)
    /\ UNCHANGED <<coordVars, now, devices, interfaces, if_metrics, alert_history,
                   recipients, agent, mail_threads, cycle, task, run_alerts,
                   present, metric_rows, inventory, walk>>

\* a variant of ProbeStart that does not wait for the semaphore
ProbeStartUngated(h) ==
    /\ discovery.probe[h].pc = "queued"
    /\ discovery' = [discovery EXCEPT !.probe[h] =
                        [SessionLocal(@) EXCEPT !.pc = "get"]]
    /\ ev' = NoEvent
    /\ UNCHANGED <<coordVars, now, devices, interfaces, if_metrics, alert_history,
                   recipients, agent, mail_threads, cycle, task, run_alerts,
                   present, metric_rows, inventory, walk>>

\* limited_discovery lines 37-43: through the semaphore, a session of its
\* own, and device_discovery up to its GET
ProbeStart(h) ==
    /\ discovery.probe[h].pc = "queued"
    /\ Cardinality(Probing) < DiscoveryConcurrency
    /\ discovery' = [discovery EXCEPT !.probe[h] =
                        [SessionLocal(@) EXCEPT !.pc = "get"]]
    /\ ev' = NoEvent
    /\ UNCHANGED <<coordVars, now, devices, interfaces, if_metrics, alert_history,
                   recipients, agent, mail_threads, cycle, task, run_alerts,
                   present, metric_rows, inventory, walk>>

\* what a probe meets: the host answers and update_device is called,
\* answers and the storage refuses every write (device_discovery still
\* returns the device), does not answer, or the GET raises
ProbeOutcomes == {"found", "unsaved", "silent", "raise"}

\* device_discovery lines 202-224 from the return of the GET, and
\* limited_discovery lines 44-53: the device is saved, an exception of
\* update_device is swallowed, the result is returned, rollback after an
\* exception, and close in every case
ProbeReturns(h, outcome, mac, hostname) ==
    /\ discovery.probe[h].pc = "get"
    /\ \E saved \in {update_device(inventory, DeviceInfo(h, mac, hostname))} :
          /\ inventory' = IF outcome = "found" THEN saved.table ELSE inventory
          /\ ev' = [Request("probe", h, outcome, 0, NULL,
                            IF outcome = "raise" THEN 500 ELSE 0)
                       EXCEPT !.pre = IF outcome \in {"found", "unsaved"}
                                     THEN DeviceInfo(h, mac, hostname) ELSE NULL,
                              !.res = (outcome = "found" /\ saved.ok)]
    /\ discovery' = [discovery EXCEPT !.probe[h] =
                        [pc |-> "done", session |-> "closed", runs |-> @.runs,
                         met |-> outcome,
                         result |-> IF outcome \in {"found", "unsaved"}
                                    THEN "device" ELSE NULL]]
    /\ UNCHANGED <<coordVars, now, devices, interfaces, if_metrics, alert_history,
                   recipients, agent, mail_threads, cycle, task, run_alerts,
                   present, metric_rows, walk>>

\* a variant of EndDiscovery that filters out the exceptions only
EndDiscoveryCountsNone ==
    /\ discovery.active
    /\ \A h \in Hosts : discovery.probe[h].pc = "done"
    /\ discovery' =
          [NoScan EXCEPT
              !.total_scanned = Cardinality(Hosts),
              !.devices_found =
                  Cardinality({h \in Hosts : discovery.probe[h].met # "raise"}),
              !.devices = {h \in Hosts : discovery.probe[h].result = "device"}]
    /\ ev' = [Request("discovered", 0, NULL, 0, NULL, 200)
                 EXCEPT !.res = [h \in Hosts |-> discovery.probe[h].met]]
    /\ UNCHANGED <<coordVars, now, devices, interfaces, if_metrics, alert_history,
                   recipients, agent, mail_threads, cycle, task, run_alerts,
                   present, metric_rows, inventory, walk>>

\* perform_full_discovery lines 55-66: gather returns and the result is
\* built from the results that are a device
EndDiscovery ==
    /\ discovery.active
    /\ \A h \in Hosts : discovery.probe[h].pc = "done"
    /\ discovery' =
          [NoScan EXCEPT
              !.total_scanned = Cardinality(Hosts),
              !.devices_found =
                  Cardinality({h \in Hosts : discovery.probe[h].result = "device"}),
              !.devices = {h \in Hosts : discovery.probe[h].result = "device"}]
    /\ ev' = [Request("discovered", 0, NULL, 0, NULL, 200)
                 EXCEPT !.res = [h \in Hosts |-> discovery.probe[h].met]]
    /\ UNCHANGED <<coordVars, now, devices, interfaces, if_metrics, alert_history,
                   recipients, agent, mail_threads, cycle, task, run_alerts,
                   present, metric_rows, inventory, walk>>

(***************************************************************************)
(* Specifications                                                          *)
(***************************************************************************)

\* The monitored device is of one of five kinds: its CPU load varies, its
\* memory use varies, it stops answering, the link of its interface goes
\* down and up (and it stops answering), or its interface drops packets.
AgentKinds == {"cpu", "memory", "reachability", "interface_status", "packet_drop"}

\* a reply of get_snmp_data: the poll failed, the call raised, a value could
\* not be parsed, or the CPU and memory utilisation
GetResult(kind, cpu, mem) == [kind |-> kind, cpu |-> cpu, mem |-> mem]

GetResults(a) ==
    CASE a = "cpu" ->
            {GetResult("success", cpu, 60) : cpu \in {60, 85, 95}}
            \cup {GetResult("raise", 0, 0)}
      [] a = "memory" ->
            {GetResult("success", 60, mem) : mem \in {60, 85}}
            \cup {GetResult("raise", 0, 0)}
      [] a = "reachability" ->
            {GetResult("success", 60, 60), GetResult("failure", 0, 0),
             GetResult("garbage", 0, 0)}
      [] a = "interface_status" ->
            {GetResult("success", 60, 60), GetResult("failure", 0, 0)}
      [] a = "packet_drop" ->
            {GetResult("success", 60, 60)}
      [] a = "fleet" ->
            {GetResult("success", 60, 60), GetResult("raise", 0, 0)}
      [] a = "network" -> {}

\* an InterfaceMetric row as poll_interfaces builds it
Sample(oper_status, discards_in, packets_in) ==
    [oper_status |-> oper_status, discards_in |-> discards_in, discards_out |-> 0,
     packets_in |-> packets_in, packets_out |-> 0,
     multicast_packets_in |-> NoCount, multicast_packets_out |-> NoCount,
     broadcast_packets_in |-> NoCount, broadcast_packets_out |-> NoCount]

\* the rows of ifIndex 1: link up and down without traffic, or link up with
\* the counters at rest, with one discard in ten packets, and with one more
\* discard in the next ten
Samples(a) ==
    IF a = "interface_status"
    THEN {Sample(1, 0, 0), Sample(2, 0, 0)}
    ELSE {Sample(1, 0, 0), Sample(1, 1, 9), Sample(1, 2, 18)}

\* a reply of bulk_snmp_walk: failed, or one row per interface index
WalkResults(a) ==
    IF a = "fleet"
    THEN {[success |-> FALSE, data |-> <<>>],
          [success |-> TRUE, data |-> <<Sample(1, 0, 0)>>]}
    ELSE IF a \in IfMetrics
    THEN {[success |-> FALSE, data |-> <<>>]}
         \cup {[success |-> TRUE, data |-> <<sample>>] : sample \in Samples(a)}
    ELSE {[success |-> b, data |-> <<>>] : b \in BOOLEAN}

(***************************************************************************)
(* PySNMPClient.bulk_walk.  An OID is a sequence of numbers; the agent     *)
(* holds a table of MaxColumns columns <<c>> with the rows <<c, 1>> ..     *)
(* <<c, rows>>, in lexicographic order, and objects <<MaxColumns + 1, k>>  *)
(* after the table.  A GETBULK response is flat: one variable binding per  *)
(* requested OID and repetition, repetition by repetition.                 *)
(***************************************************************************)

MaxColumns == 3
MaxRows == 3

\* the max-repetitions argument of bulk_cmd (50 in the code)
max_repetitions == 2

NoWalk ==
    [pc |-> "idle", rows |-> 0, base_oids |-> {}, oid_objects |-> <<>>,
     results |-> <<>>, success |-> FALSE]

\* the lists of columns a caller may pass: no column twice
OidLists ==
    {oids \in UNION {[1..n -> {<<c>> : c \in 1..MaxColumns}] : n \in 1..MaxColumns} :
        \A i, j \in DOMAIN oids : i # j => oids[i] # oids[j]}

\* the object after `oid` in the agent's view (GETNEXT)
NextOid(oid, rows) ==
    IF oid[1] > MaxColumns
    THEN <<oid[1], IF Len(oid) = 1 THEN 1 ELSE oid[2] + 1>>
    ELSE IF rows > 0 /\ (Len(oid) = 1 \/ oid[2] < rows)
         THEN <<oid[1], IF Len(oid) = 1 THEN 1 ELSE oid[2] + 1>>
         ELSE IF rows > 0 /\ oid[1] < MaxColumns
              THEN <<oid[1] + 1, 1>>
              ELSE <<MaxColumns + 1, 1>>

RECURSIVE Advance(_, _, _)
Advance(oid, rows, n) ==
    IF n = 0 THEN oid ELSE Advance(NextOid(oid, rows), rows, n - 1)

\* the varBindTable of bulk_cmd(..., 0, max_repetitions, *oid_objects)
bulk_cmd(oid_objects, rows) ==
    [k \in 1..(max_repetitions * Len(oid_objects)) |->
        Advance(oid_objects[((k - 1) % Len(oid_objects)) + 1], rows,
                ((k - 1) \div Len(oid_objects)) + 1)]

\* full_oid.startswith(base_oid + '.')
IsChild(full_oid, base_oid) ==
    /\ Len(full_oid) > Len(base_oid)
    /\ SubSeq(full_oid, 1, Len(base_oid)) = base_oid

\* the entry of `results` for a variable binding: the OID without its last
\* part, the last part, and the value (the agent's value of <<c, i>> is
\* written c * 10 + i)
ResultRow(full_oid) ==
    [base_oid |-> SubSeq(full_oid, 1, Len(full_oid) - 1),
     index |-> full_oid[Len(full_oid)],
     value |-> full_oid[1] * 10 + full_oid[Len(full_oid)]]

\* last_oids: for each base OID with a child in the response, the last one
last_oids(varBindTable, base_oids) ==
    [b \in {b \in base_oids : \E k \in DOMAIN varBindTable : IsChild(varBindTable[k], b)} |->
        LET ks == {k \in DOMAIN varBindTable : IsChild(varBindTable[k], b)}
        IN varBindTable[CHOOSE k \in ks : \A j \in ks : j <= k]]

\* bulk_walk lines 101-109: a call with the list `oids`, against an agent
\* whose table has `rows` rows
BulkWalkCall(oids, rows) ==
    /\ walk.pc \in {"idle", "returned"}
    /\ walk' = [pc |-> "walking", rows |-> rows,
                base_oids |-> {oids[i] : i \in DOMAIN oids},
                oid_objects |-> oids, results |-> <<>>, success |-> FALSE]
    /\ UNCHANGED <<coordVars, now, devices, interfaces, if_metrics, alert_history,
                   recipients, agent, mail_threads, cycle, task, present,
                   metric_rows, discovery, inventory, ev, run_alerts>>

\* bulk_walk lines 112-126 and 171-172: the request ends with an error
\* indication, an error status or an exception; a failure value is returned
BulkWalkFails ==
    /\ walk.pc = "walking"
    /\ walk' = [walk EXCEPT !.pc = "returned", !.success = FALSE, !.results = <<>>]
    /\ UNCHANGED <<coordVars, now, devices, interfaces, if_metrics, alert_history,
                   recipients, agent, mail_threads, cycle, task, present,
                   metric_rows, discovery, inventory, ev, run_alerts>>

\* the loop body without the look at still_in_table: requests go on while
\* there is an OID to continue from
BulkWalkResponseUnstopped(order) ==
    /\ walk.pc = "walking"
    /\ \E table \in {bulk_cmd(walk.oid_objects, walk.rows)} :
          LET children == SelectSeq(table, LAMBDA vb : \E b \in walk.base_oids : IsChild(vb, b))
              last == last_oids(table, walk.base_oids)
              next == SelectSeq(order, LAMBDA b : b \in DOMAIN last)
          IN walk' = [walk EXCEPT
                         !.results = @ \o [k \in DOMAIN children |-> ResultRow(children[k])],
                         !.oid_objects = [k \in DOMAIN next |-> last[next[k]]]]
    /\ UNCHANGED <<coordVars, now, devices, interfaces, if_metrics, alert_history,
                   recipients, agent, mail_threads, cycle, task, present,
                   metric_rows, discovery, inventory, ev, run_alerts>>

\* bulk_walk lines 112-169: one pass of the loop with a response; `order` is
\* the order in which the set base_oids is iterated
BulkWalkResponse(order) ==
    /\ walk.pc = "walking"
    /\ \E table \in {bulk_cmd(walk.oid_objects, walk.rows)} :
          LET children == SelectSeq(table, LAMBDA vb : \E b \in walk.base_oids : IsChild(vb, b))
              last == last_oids(table, walk.base_oids)
              next == SelectSeq(order, LAMBDA b : b \in DOMAIN last)
              still_in_table == children # <<>>
          IN walk' = [walk EXCEPT
                         !.results = @ \o [k \in DOMAIN children |-> ResultRow(children[k])],
                         !.oid_objects = [k \in DOMAIN next |-> last[next[k]]],
                         !.pc = IF still_in_table THEN "walking" ELSE "returned",
                         !.success = ~still_in_table]
    /\ UNCHANGED <<coordVars, now, devices, interfaces, if_metrics, alert_history,
                   recipients, agent, mail_threads, cycle, task, present,
                   metric_rows, discovery, inventory, ev, run_alerts>>

\* the tables at the start, the devices being of one of `kinds`; those of
\* `silent` may have no alert recipient configured.  A device of the fleet
\* has one interface, polled twice before.
EngineStart(kinds, silent) ==
    /\ agent \in kinds
    /\ now = 0
    /\ devices = [d \in DeviceIds |-> NewDevice]
    /\ present = IF agent = "network" THEN {} ELSE DeviceIds
    /\ interfaces = IF agent = "fleet"
                    THEN [d \in DeviceIds |-> NewInterface(d, 1)]
                    ELSE <<>>
    /\ if_metrics = [i \in DOMAIN interfaces |-> <<Sample(1, 0, 0), Sample(1, 0, 0)>>]
    /\ metric_rows = {}
    /\ alert_history = <<>>
    /\ recipients \in (IF agent \in silent THEN BOOLEAN ELSE {TRUE})
    /\ mail_threads = EmptyBag
    /\ cycle = NoCycle
    /\ task = [d \in DeviceIds |-> NoTask("idle")]
    /\ discovery = NoScan
    /\ inventory = <<>>
    /\ walk = NoWalk
    /\ ev = NoEvent
    /\ run_alerts = 0

EngineInit == EngineStart(AgentKinds, {"cpu"})

CoordInit ==
    /\ polling_state = PollingStateInit
    /\ trig = [t \in Triggers |-> TrigInit]

Init == CoordInit /\ EngineInit

CoordNext ==
    \E t \in Triggers :
        \/ TriggerFires(t)
        \/ TriggerIsPolling(t)
        \/ \E clientRaises \in BOOLEAN : TriggerStartPolling(t, clientRaises)
        \/ TriggerPollReturns(t)
        \/ TriggerEndPolling(t)

SpecCoord == Init /\ [][CoordNext]_vars

\* the event loop runs every task that is ready: a trigger that passed its
\* check runs start_polling, comes back from perform_full_poll (every SNMP
\* call has a timeout) and runs its finally clause
SpecCoordFair ==
    /\ Init
    /\ [][CoordNext]_vars
    /\ \A t \in Triggers :
          WF_vars(\/ \E clientRaises \in BOOLEAN : TriggerStartPolling(t, clientRaises)
                  \/ TriggerPollReturns(t)
                  \/ TriggerEndPolling(t))

PollNext(results, walks) ==
    \/ StartFullPoll
    \/ EndFullPoll
    \/ \E d \in DeviceIds :
          \/ TaskStart(d)
          \/ \E result \in results : TaskEvaluate(d, result)
          \/ \E raises \in BOOLEAN : TaskSaveMetric(d, raises)
          \/ \E commit_ok \in BOOLEAN : TaskPollFailed(d, commit_ok)
          \/ \E result \in walks : TaskWalkReturns(d, result)
          \/ \E commit_ok \in BOOLEAN : TaskPollSucceeded(d, commit_ok)

\* the requests a user makes: on the alerts of the quantity that varies,
\* and on the maintenance window
Requests(a) ==
    \E d \in DeviceIds :
        \/ /\ a \in Metrics
           /\ acknowledge_alert(d, a) \/ resolve_alert(d, a)
        \/ /\ a \in IfMetrics
           /\ \/ acknowledge_interface_alert(d, 1, a)
              \/ resolve_interface_alert(d, 1, a)
        \/ \E enabled \in BOOLEAN, duration \in Durations :
              update_maintenance_mode(d, enabled, duration)

Next ==
    \/ PollNext(GetResults(agent), WalkResults(agent))
    \/ Requests(agent)
    \/ Tick

\* the alert engine: polling passes that follow one another, user requests
\* and the clock
Spec == Init /\ [][Next]_vars

\* the same for the device whose links go down, with no alert recipient
InitUnnotified ==
    CoordInit /\ EngineStart({"interface_status"}, {"interface_status"}) /\ ~recipients

SpecUnnotified == InitUnnotified /\ [][Next]_vars

\* a fleet of devices that answer or whose poll raises, polled with tasks
\* side by side while the device added last may be deleted; or an empty
\* devices table and a subnet that is scanned
FleetKinds == {"fleet", "network"}

InitFleet == CoordInit /\ EngineStart(FleetKinds, {})

\* the scans requested: of the subnet the hosts are in, or of a network
\* that does not parse
ScanRequests(a) == IF a = "network" THEN BOOLEAN ELSE {}

DiscoveryNext(requests) ==
    \/ \E valid \in requests : StartDiscovery(valid)
    \/ EndDiscovery
    \/ \E h \in Hosts :
          \/ ProbeStart(h)
          \/ \E outcome \in ProbeOutcomes, mac \in Macs, hostname \in Names :
                ProbeReturns(h, outcome, mac, hostname)

NextFleet ==
    \/ PollNext(GetResults(agent), WalkResults(agent))
    \/ delete_device(MaxDevices)
    \/ DiscoveryNext(ScanRequests(agent))
    \/ Tick

SpecFleet == InitFleet /\ [][NextFleet]_vars

\* the device whose CPU load varies, with a recipient configured, and the
\* threads of send_email_background calling back whenever they are done
InitMail == CoordInit /\ EngineStart({"cpu"}, {})

NextMail ==
    \/ PollNext(GetResults(agent), WalkResults(agent))
    \/ \E ids \in SUBSET (1..MaxAlerts), success \in BOOLEAN :
          EmailCallback(ids, success)

SpecMail == InitMail /\ [][NextMail]_vars

\* calls of bulk_walk against an agent; every request is answered or fails
InitWalk == CoordInit /\ EngineStart({"network"}, {})

NextWalk ==
    \/ \E oids \in OidLists, rows \in 0..MaxRows : BulkWalkCall(oids, rows)
    \/ \E order \in {o \in OidLists : Len(o) = MaxColumns} : BulkWalkResponse(order)
    \/ BulkWalkFails

SpecWalk == InitWalk /\ [][NextWalk]_vars /\ WF_vars(NextWalk)

(***************************************************************************)
(* The counter arithmetic: the deltas and the discard rate of              *)
(* _check_packet_drops and the throughput of the query endpoints, applied  *)
(* to the two newest rows of one interface.                                *)
(***************************************************************************)

MaxCount == 2
MaxElapsed == 2

\* an interface_metrics row with its time and byte counter
InterfaceMetric(timestamp, octets_in, discards_in, packets_in, multicast_packets_in) ==
    [Sample(1, discards_in, packets_in)
        EXCEPT !.multicast_packets_in = multicast_packets_in]
    @@ [timestamp |-> timestamp, octets_in |-> octets_in, octets_out |-> 0]

\* the rows stored at one of `times`: byte and discard counters, a packet
\* counter that may be None, a multicast counter that is None, 0 or 1
MetricsAt(times) ==
    {InterfaceMetric(t, o, di, p, mc) :
        t \in times, o \in 0..MaxCount, di \in {0, 1},
        p \in (0..MaxCount) \cup {NoCount}, mc \in {NoCount, 0, 1}}

\* the columns _check_packet_drops takes deltas of
CounterColumns ==
    {"discards_in", "discards_out", "packets_in", "packets_out",
     "multicast_packets_in", "multicast_packets_out",
     "broadcast_packets_in", "broadcast_packets_out"}

\* delta_in_expr / delta_out_expr: curr - prev, or COUNTER32_MAX - prev + curr
\* when the counter went back.  2^32 is beyond the integers of the checker:
\* the delta is held as wraps * 2^32 + rest
delta_expr(curr, prev) ==
    IF curr >= prev
    THEN [wraps |-> 0, rest |-> curr - prev]
    ELSE [wraps |-> 1, rest |-> curr - prev]

\* sum(delta) * 8 / avg(delta_seconds) of one interface, and the
\* `bps if bps and bps > 0 else 0` of the response
Bps(delta, seconds) ==
    IF delta.wraps > 0 \/ delta.rest > 0
    THEN [wraps |-> delta.wraps * 8, num |-> delta.rest * 8, den |-> seconds]
    ELSE [wraps |-> 0, num |-> 0, den |-> 1]

\* the datapoints of the rows of one interface (newest first), oldest
\* first; the oldest row has no prev_timestamp and is filtered out
get_network_throughput(rows) ==
    [k \in 1..(Len(rows) - 1) |->
        LET cur == rows[Len(rows) - k]
            prev == rows[Len(rows) - k + 1]
        IN [timestamp |-> cur.timestamp,
            inbound_bps |-> Bps(delta_expr(cur.octets_in, prev.octets_in),
                                cur.timestamp - prev.timestamp),
            outbound_bps |-> Bps(delta_expr(cur.octets_out, prev.octets_out),
                                 cur.timestamp - prev.timestamp)]]

\* the report filters the rows by the date range before the lag is taken
\* and computes the same deltas and rates
get_report_network_throughput(rows, start_dt, end_dt) ==
    get_network_throughput(
        SelectSeq(rows, LAMBDA r : r.timestamp >= start_dt /\ r.timestamp <= end_dt))

\* one interface with its two newest rows, the older one stored at time 0
InitRates ==
    /\ CoordInit
    /\ agent = "packet_drop"
    /\ now = MaxElapsed
    /\ devices = [d \in DeviceIds |-> NewDevice]
    /\ present = DeviceIds
    /\ interfaces = <<NewInterface(1, 1)>>
    /\ if_metrics \in {<<<<latest, previous>>>> :
                          latest \in MetricsAt(1..MaxElapsed), previous \in MetricsAt({0})}
    /\ metric_rows = {}
    /\ alert_history = <<>>
    /\ recipients = TRUE
    /\ mail_threads = EmptyBag
    /\ cycle = NoCycle
    /\ task = [d \in DeviceIds |-> NoTask("idle")]
    /\ discovery = NoScan
    /\ inventory = <<>>
    /\ walk = NoWalk
    /\ ev = NoEvent
    /\ run_alerts = 0

Computed(op, m, pre, res) ==
    /\ ev' = [NoEvent EXCEPT !.op = op, !.m = m, !.pre = pre, !.res = res]
    /\ UNCHANGED <<polling_state, trig, now, devices, interfaces, if_metrics,
                   alert_history, recipients, agent, mail_threads, cycle, task,
                   present, metric_rows, discovery, inventory, walk, run_alerts>>

\* get_safe_delta(latest_metric.<column>, previous_metric.<column>)
SafeDelta(column) ==
    LET curr == if_metrics[1][1][column]
        prev == if_metrics[1][2][column]
    IN Computed("get_safe_delta", column, <<curr, prev>>, get_safe_delta(curr, prev))

\* the discard rate of _check_packet_drops over the two rows
DiscardRate ==
    Computed("discard_rate", NULL, NULL, discard_rate(if_metrics[1][1], if_metrics[1][2]))

Throughput ==
    Computed("get_network_throughput", NULL, NULL, get_network_throughput(if_metrics[1]))

ReportThroughput(start_dt, end_dt) ==
    Computed("get_report_network_throughput", NULL, <<start_dt, end_dt>>,
             get_report_network_throughput(if_metrics[1], start_dt, end_dt))

NextRates ==
    \/ \E column \in CounterColumns : SafeDelta(column)
    \/ DiscardRate
    \/ Throughput
    \/ \E start_dt \in 0..1 : ReportThroughput(start_dt, MaxElapsed)

SpecRates == InitRates /\ [][NextRates]_vars

\* the triggers whose cycle is inside perform_full_poll
InFullPoll == {t \in Triggers : trig[t].pc = "polling"}

\* C1: at most one poll cycle is executing perform_full_poll at any instant
C1_SingleFlight == Cardinality(InFullPoll) <= 1

(***************************************************************************)
(* Properties of the alert engine.  A poll judges the device by the row    *)
(* its session loaded (task[d].dev); the columns in `devices` are what is  *)
(* committed.                                                              *)
(***************************************************************************)

PollOps == {"poll_device", "insert_device_metric", "poll_interfaces",
            "poll_failed", "poll_succeeded"}

\* the permitted changes of an alert state
Allowed(a, b) ==
    \/ a = b
    \/ <<a, b>> \in {<<"clear", "triggered">>, <<"triggered", "acknowledged">>,
                     <<"triggered", "clear">>, <<"acknowledged", "clear">>}

StatesValid ==
    /\ \A d \in DeviceIds, m \in Metrics : devices[d][StateField(m)] \in AlertStates
    /\ \A i \in 1..Len(interfaces), m \in IfMetrics :
          interfaces[i][StateField(m)] \in AlertStates
    /\ \A d \in DeviceIds :
          /\ task[d].pc \in {"get", "evaluated", "failed", "walk", "walked"}
                => \A m \in Metrics : task[d].dev[StateField(m)] \in AlertStates
          /\ \A i \in 1..Len(task[d].ifs), m \in IfMetrics :
                task[d].ifs[i][StateField(m)] \in AlertStates

TransitionsAllowed ==
    /\ \A d \in DeviceIds, m \in Metrics :
          Allowed(devices[d][StateField(m)], devices'[d][StateField(m)])
    /\ \A i \in 1..Len(interfaces), m \in IfMetrics :
          Allowed(interfaces[i][StateField(m)], interfaces'[i][StateField(m)])
    /\ \A d \in DeviceIds, m \in Metrics :
          (ev'.op = "poll_device" /\ ev'.d = d /\ ev'.res.kind \in {"success", "failure"})
             => Allowed(task[d].dev[StateField(m)], task'[d].dev[StateField(m)])

BreachFound(m, res, view) ==
    CASE m = "cpu" -> res.kind = "success" /\ res.cpu > view.cpu_threshold
      [] m = "memory" -> res.kind = "success" /\ res.mem > view.memory_threshold
      [] m = "reachability" ->
            /\ res.kind = "failure"
            /\ \/ ~view.is_reachable
               \/ view.consecutive_failures + 1 >= view.failure_threshold

\* the alert_history rows of device d and type m, committed or in its session
RowsOf(hist, new, d, m) ==
    LET all == hist \o new
    IN {i \in 1..Len(all) : /\ all[i].device_id = d
                            /\ all[i].alert_type = m
                            /\ all[i].interface_id = NoIf}

StillBreachingIsIdle(d, m) ==
    (/\ ev'.op = "poll_device" /\ ev'.d = d
     /\ task[d].dev[StateField(m)] \in {"triggered", "acknowledged"}
     /\ BreachFound(m, ev'.res, task[d].dev))
    => /\ AlertOf(task'[d].dev, m) = AlertOf(task[d].dev, m)
       /\ AlertOf(devices'[d], m) = AlertOf(devices[d], m)
       /\ RowsOf(alert_history', task'[d].new, d, m)
             = RowsOf(alert_history, task[d].new, d, m)
       /\ Alerts(ev'.log, m) = 0
       /\ Recoveries(ev'.log, m) = 0

\* C3: a poll that finds a triggered or acknowledged device metric still
\* breaching changes nothing, opens no record and notifies nobody, and a run
\* of consecutive breaching polls that starts from clear sends one alert
C3_Idempotent ==
    [][/\ \A d \in DeviceIds, m \in Metrics : StillBreachingIsIdle(d, m)
       /\ run_alerts' <= 1]_vars

\* the committed rows i, j are open and of the same (type, device, interface)
SameOpenAlert(i, j) ==
    /\ alert_history[i].cleared_at = NULL
    /\ alert_history[j].cleared_at = NULL
    /\ alert_history[i].alert_type = alert_history[j].alert_type
    /\ alert_history[i].device_id = alert_history[j].device_id
    /\ alert_history[i].interface_id = alert_history[j].interface_id

\* C4: at most one alert_history row with a null clear time for each
\* (alert type, device, interface)
C4_OneOpenRecord ==
    \A i, j \in 1..Len(alert_history) : SameOpenAlert(i, j) => i = j

\* the evaluators of the poll of d run, and its session sees the window open
SuppressedPoll(d) ==
    /\ ev'.op = "poll_device" /\ ev'.d = d
    /\ MaintenanceActive(task[d].dev, now)

\* nothing about the device-level alerts is changed, in the tables or in the
\* session, and nothing is left in the session for its commit to write
DeviceAlertsUntouched(d) ==
    /\ \A m \in Metrics :
          /\ AlertOf(devices'[d], m) = AlertOf(devices[d], m)
          /\ AlertOf(task'[d].dev, m) \in {AlertOf(task[d].dev, m), AlertOf(devices[d], m)}
          /\ AlertOf(task'[d].dev, m) = AlertOf(task'[d].ld, m)
          /\ {StateField(m), AckField(m), SentField(m)} \cap task'[d].dirty = {}
    /\ alert_history' = alert_history
    /\ task'[d].new = <<>>
    /\ task'[d].clr = {}
    /\ ev'.log = <<>>

InterfaceAlerts(ifs) ==
    [i \in 1..Len(ifs) |-> [m \in IfMetrics |-> AlertOf(ifs[i], m)]]

InterfaceRecords(hist) ==
    SelectSeq(hist, LAMBDA r : r.interface_id # NoIf)

\* the interface rows the poll of d works on
SessionInterfaces(d) ==
    IF task[d].pc = "walked" THEN task[d].ifs ELSE interfaces

InterfaceAlertsUntouched(d) ==
    /\ \A i \in 1..Len(interfaces) :
          InterfaceAlerts(interfaces')[i] = InterfaceAlerts(interfaces)[i]
    /\ \A i \in 1..Len(SessionInterfaces(d)) :
          task'[d].pc = "walked"
             => InterfaceAlerts(task'[d].ifs)[i] = InterfaceAlerts(SessionInterfaces(d))[i]
    /\ InterfaceRecords(alert_history') = InterfaceRecords(alert_history)
    /\ InterfaceRecords(task'[d].new) = InterfaceRecords(task[d].new)
    /\ \A i \in 1..Len(ev'.log) : ev'.log[i].alert_type # "interface"

\* C6: while a device has maintenance enabled and the time is before
\* maintenance_until, no step of a poll of it changes the alert columns of
\* its interfaces, opens or closes an interface alert_history row, or makes
\* an interface notification
C6_InterfaceSuppressed ==
    [][\A d \in DeviceIds :
          (/\ ev'.op \in PollOps /\ ev'.d = d
           /\ MaintenanceActive(task[d].dev, now)
           /\ MaintenanceActive(devices[d], now))
             => InterfaceAlertsUntouched(d)]_vars

\* the first step of a poll of d that got a reply, the window having expired
PollAfterExpiry(d) ==
    /\ ev'.op = "poll_device" /\ ev'.d = d
    /\ ev'.res.kind \in {"success", "failure"}
    /\ InMaintenance(task[d].dev) /\ InMaintenance(devices[d])
    /\ now >= task[d].dev.maintenance_until
    /\ now >= devices[d].maintenance_until

MaintenanceOff(device) ==
    /\ ~device.maintenance_mode
    /\ device.maintenance_until = NoTime
    /\ device.maintenance_reason = NULL

\* C7: the first poll after maintenance_until has passed, successful or
\* failed, leaves maintenance disabled
C7_ExpiryDisables ==
    [][\A d \in DeviceIds : PollAfterExpiry(d) => MaintenanceOff(task'[d].dev)]_vars

\* the row an acknowledge or resolve request is about, before and after
RowBefore(e) ==
    IF e.idx = 0 THEN devices[e.d] ELSE interfaces[FindInterface(e.d, e.idx)]

RowAfter(e) ==
    IF e.idx = 0 THEN devices'[e.d] ELSE interfaces'[FindInterface(e.d, e.idx)]

RowExists(e) == e.idx = 0 \/ FindInterface(e.d, e.idx) # 0

AcknowledgeChecked ==
    (ev'.op = "acknowledge" /\ RowExists(ev'))
    => LET before == AlertOf(RowBefore(ev'), ev'.m)
           after == AlertOf(RowAfter(ev'), ev'.m)
       IN IF before.state = "triggered"
          THEN /\ ev'.status = 200
               /\ after.state = "acknowledged"
               /\ after.acknowledged_at # NULL
               /\ after.alert_sent = before.alert_sent
          ELSE /\ ev'.status = 400
               /\ after = before

ResolveClears ==
    (ev'.op = "resolve" /\ RowExists(ev'))
    => /\ ev'.status = 200
       /\ AlertOf(RowAfter(ev'), ev'.m)
             = [state |-> "clear", acknowledged_at |-> NULL, alert_sent |-> FALSE]

\* C9: a resolve request on an existing device or interface metric succeeds
\* from every state and leaves the state clear, acknowledged_at null and the
\* alert-sent flag false
C9_Resolve == [][ResolveClears]_vars

\* an acknowledged alert has just been resolved
C9_Witness ==
    /\ ev.op = "resolve" /\ ev.status = 200 /\ ev.idx = 0
    /\ ev.pre = [state |-> "acknowledged", acknowledged_at |-> STAMP, alert_sent |-> TRUE]
    /\ AlertOf(devices[ev.d], ev.m)
          = [state |-> "clear", acknowledged_at |-> NULL, alert_sent |-> FALSE]

\* the severity the example of the specification gives: High below 90
ExpectedSeverity(m, res) ==
    CASE m = "cpu" -> IF res.cpu >= 90 THEN "Critical" ELSE "High"
      [] m = "memory" -> IF res.mem >= 90 THEN "Critical" ELSE "High"
      [] m = "reachability" -> "Critical"

\* the rows of (m, d) the step has opened
Opened(d, m) ==
    RowsOf(alert_history', task'[d].new, d, m) \ RowsOf(alert_history, task[d].new, d, m)

BreachTriggers(d, m) ==
    (/\ ev'.op = "poll_device" /\ ev'.d = d
     /\ ~MaintenanceActive(task[d].dev, now)
     /\ task[d].dev[StateField(m)] = "clear"
     /\ BreachFound(m, ev'.res, task[d].dev))
    => LET rows == alert_history' \o task'[d].new
           made == create_alert_record(Ctx(d), m, ExpectedSeverity(m, ev'.res), d, NoIf)
       IN /\ task'[d].dev[StateField(m)] = "triggered"
          /\ task'[d].dev[SentField(m)] = TRUE
          /\ made.new[Len(made.new)].email_status = "pending"
          /\ Cardinality(Opened(d, m)) = 1
          /\ \A i \in Opened(d, m) :
                /\ rows[i].severity = ExpectedSeverity(m, ev'.res)
                /\ rows[i].cleared_at = NULL
                /\ rows[i].email_status = IF recipients THEN "pending" ELSE "failed"
          /\ Alerts(ev'.log, m) = 1

\* C10: a poll outside a maintenance window that finds a device metric
\* breaching while its state is clear sets the state to triggered and the
\* alert-sent flag, opens exactly one alert_history row for (type, device),
\* created with email status pending and the severity of the value (High for
\* cpu 85 over threshold 80), and requests exactly one alert notification
C10_BreachTriggers ==
    [][\A d \in DeviceIds, m \in Metrics : BreachTriggers(d, m)]_vars

\* cpu 85 over threshold 80 has just opened one pending row of severity High
C10_Witness ==
    /\ ev.op = "poll_device" /\ ev.res.kind = "success" /\ ev.res.cpu = 85
    /\ devices[ev.d].cpu_threshold = 80
    /\ task[ev.d].dev.cpu_alert_state = "triggered"
    /\ task[ev.d].dev.cpu_alert_sent
    /\ Alerts(ev.log, "cpu") = 1
    /\ Len(task[ev.d].new) = 1
    /\ task[ev.d].new[1].severity = "High"
    /\ task[ev.d].new[1].email_status = "pending"

\* the reply res shows metric m within bounds to a poll whose session holds
\* `view`: a value at or below the threshold, or a complete reply
NoBreachFound(m, res, view) ==
    CASE m = "cpu" -> res.kind = "success" /\ res.cpu <= view.cpu_threshold
      [] m = "memory" -> res.kind = "success" /\ res.mem <= view.memory_threshold
      [] m = "reachability" -> res.kind = "success"

\* the alert_history rows as the session of a task sees them
RowsSeen(hist, t) ==
    [i \in 1..Len(hist) |-> IF i \in t.clr THEN record_auto_clear(hist[i]) ELSE hist[i]]
        \o t.new

\* the rows of (m, d) that are open
OpenRows(rows, d, m) ==
    {i \in 1..Len(rows) : /\ rows[i].device_id = d
                           /\ rows[i].alert_type = m
                           /\ rows[i].interface_id = NoIf
                           /\ rows[i].cleared_at = NULL}

\* the poll of d gets a reply with m within bounds, outside a window
RecoveryPoll(d, m) ==
    /\ ev'.op = "poll_device" /\ ev'.d = d
    /\ ~MaintenanceActive(task[d].dev, now)
    /\ NoBreachFound(m, ev'.res, task[d].dev)

AutoCleared(row) ==
    /\ row.cleared_at # NULL
    /\ row.action_taken = "auto_cleared"
    /\ row.action_by = NULL

RecoveryClears(d, m) ==
    (RecoveryPoll(d, m) /\ task[d].dev[StateField(m)] \in {"triggered", "acknowledged"})
    => /\ task'[d].dev[StateField(m)] = "clear"
       /\ task'[d].dev[AckField(m)] = NULL
       /\ \A i \in OpenRows(RowsSeen(alert_history, task[d]), d, m) :
             AutoCleared(RowsSeen(alert_history', task'[d])[i])
       /\ Recoveries(ev'.log, m) = 1

ClearStaysClear(d, m) ==
    (RecoveryPoll(d, m) /\ task[d].dev[StateField(m)] = "clear")
    => /\ AlertOf(task'[d].dev, m) = AlertOf(task[d].dev, m)
       /\ AlertOf(devices'[d], m) = AlertOf(devices[d], m)
       /\ \A i \in RowsOf(alert_history, task[d].new, d, m) :
             RowsSeen(alert_history', task'[d])[i] = RowsSeen(alert_history, task[d])[i]
       /\ RowsOf(alert_history', task'[d].new, d, m)
             = RowsOf(alert_history, task[d].new, d, m)
       /\ Alerts(ev'.log, m) = 0
       /\ Recoveries(ev'.log, m) = 0

\* C11: a poll outside a maintenance window that finds a device metric
\* within bounds while its state is triggered or acknowledged sets the state
\* to clear and acknowledged_at to null, gives the open alert_history row of
\* that metric a clear time with action auto_cleared and no actor, and
\* requests exactly one recovery notification; when the state is clear it
\* changes nothing and sends nothing
C11_Recovery ==
    [][\A d \in DeviceIds, m \in Metrics :
          RecoveryClears(d, m) /\ ClearStaysClear(d, m)]_vars

\* the same with "the open row" read as the row the evaluator looks up
FirstOpenRowCleared ==
    [][\A d \in DeviceIds, m \in Metrics :
          /\ ClearStaysClear(d, m)
          /\ (RecoveryPoll(d, m) /\ task[d].dev[StateField(m)] \in {"triggered", "acknowledged"})
             => /\ task'[d].dev[StateField(m)] = "clear"
                /\ task'[d].dev[AckField(m)] = NULL
                /\ LET id == get_active_alert_record(Ctx(d), m, d, NoIf)
                   IN id # 0 => AutoCleared(RowsSeen(alert_history', task'[d])[id])
                /\ Recoveries(ev'.log, m) = 1]_vars

\* the committed open rows of the metric of a request on a device alert
RequestRows(e) == OpenRows(alert_history, e.d, e.m)

UserActionRecorded ==
    /\ (ev'.op = "acknowledge" /\ ev'.idx = 0 /\ ev'.status = 200)
       => \A i \in RequestRows(ev') :
             /\ alert_history'[i].action_taken = "acknowledged"
             /\ alert_history'[i].action_by # NULL
             /\ alert_history'[i].action_at # NULL
             /\ alert_history'[i].cleared_at = NULL
    /\ (ev'.op = "resolve" /\ ev'.idx = 0 /\ ev'.status = 200)
       => \A i \in RequestRows(ev') :
             /\ alert_history'[i].action_taken = "resolved"
             /\ alert_history'[i].cleared_at # NULL

\* C12: after a successful acknowledge the open alert_history row of the
\* metric carries the action acknowledged, the acting user and a timestamp
\* and stays open; after a resolve it carries the action resolved and a
\* clear time
C12_UserAction == [][UserActionRecorded]_vars

\* the step of the poll of d at which poll_device returns False
PollEndsInFailure(d) ==
    /\ ev'.d = d
    /\ \/ ev'.op = "poll_device" /\ ev'.res.kind # "success"
       \/ ev'.op = "insert_device_metric" /\ ev'.status = 500

\* the failure is counted on top of the persisted counter, and the device is
\* marked unreachable when the counter reaches the threshold
FailureCounted(d) ==
    PollEndsInFailure(d)
    => /\ task'[d].dev.consecutive_failures = devices[d].consecutive_failures + 1
       /\ task'[d].dev.is_reachable =
             IF task'[d].dev.consecutive_failures >= devices[d].failure_threshold
             THEN FALSE
             ELSE devices[d].is_reachable

SuccessCounted(d) ==
    (ev'.d = d /\ ev'.op = "poll_device" /\ ev'.res.kind = "success")
    => /\ task'[d].dev.consecutive_failures = 0
       /\ task'[d].dev.is_reachable

\* the commit that ends the task persists what the poll has counted
CountPersisted(d) ==
    (ev'.d = d /\ ev'.op \in {"poll_failed", "poll_succeeded"} /\ ev'.status = 0)
    => /\ devices'[d].consecutive_failures = task[d].dev.consecutive_failures
       /\ devices'[d].is_reachable = task[d].dev.is_reachable

\* C14: a device poll that ends in failure, by a failure value or by an
\* exception, adds one to the persisted consecutive_failures, and is_reachable
\* becomes false when the counter reaches failure_threshold; a successful
\* poll sets consecutive_failures to 0 and is_reachable to true
C14_FailureCounter ==
    [][\A d \in DeviceIds :
          FailureCounted(d) /\ SuccessCounted(d) /\ CountPersisted(d)]_vars

\* the same for the polls that end by a failure value only
FailureValueCounted ==
    [][\A d \in DeviceIds :
          /\ (PollEndsInFailure(d) /\ ev'.op = "poll_device" /\ ev'.res.kind = "failure")
                => FailureCounted(d)
          /\ SuccessCounted(d) /\ CountPersisted(d)]_vars

\* the interface rows of device d in a table have no alert
InterfacesClear(ifs, d) ==
    \A i \in InterfacesOf(ifs, d), m \in IfMetrics :
        ifs[i][StateField(m)] = "clear" /\ ifs[i][AckField(m)] = NULL

\* the task of d ends after a failed device poll with the device unreachable
UnreachableTaskEnd(d) ==
    /\ ev'.op = "poll_failed" /\ ev'.d = d /\ ev'.status = 0
    /\ ~devices'[d].is_reachable

\* C15: after a poll task whose device poll failed with the device marked
\* unreachable, every interface of the device has both alert states clear
\* and acknowledged_at null, and no recovery notification was made for
\* them; in every committed state a device with is_reachable false has no
\* interface in triggered or acknowledged state (the states between two
\* commits of one task are left aside)
C15_UnreachableClears ==
    /\ [](\A d \in DeviceIds :
             (task[d].pc \in {"idle", "queued", "done"} /\ ~devices[d].is_reachable)
                => InterfacesClear(interfaces, d))
    /\ [][\A d \in DeviceIds :
             UnreachableTaskEnd(d)
             => /\ InterfacesClear(interfaces', d)
                /\ mail_threads' = mail_threads
                /\ ev'.log = <<>>]_vars

\* the steps that end the task of a device
TaskEnds == {"poll_failed", "poll_succeeded", "device_not_found"}

\* the committed metric rows of device d
RowsFor(rows, d) == {r \in rows : r.device_id = d}

\* a step of the task of d leaves the tasks, the device rows and the metric
\* rows of the other devices as they are
OthersUntouched(d) ==
    (ev'.op \in PollOps \cup TaskEnds /\ ev'.d = d)
    => \A e \in DeviceIds \ {d} :
          /\ task'[e] = task[e]
          /\ devices'[e] = devices[e]
          /\ RowsFor(metric_rows', e) = RowsFor(metric_rows, e)

\* the commit that ends the task of d writes its metric rows and its state
CommitsOwnWork(d) ==
    (ev'.op \in {"poll_failed", "poll_succeeded"} /\ ev'.d = d /\ ev'.status = 0)
    => /\ devices'[d].consecutive_failures = task[d].dev.consecutive_failures
       /\ devices'[d].is_reachable = task[d].dev.is_reachable
       /\ task[d].rows \subseteq metric_rows'
       /\ ev'.op = "poll_succeeded"
             => MetricRow("device_metrics", d, NoIf, cycle.timestamp) \in metric_rows'

\* the end of the task of a device whose poll failed, or whose task raised,
\* adds one to failed_polls, and no other step adds to it
FailedOnce(d) ==
    /\ (ev'.op = "poll_failed" /\ ev'.d = d)
          => cycle'.failed_polls = cycle.failed_polls + 1
    /\ (ev'.op = "poll_succeeded" /\ ev'.d = d)
          => cycle'.failed_polls = cycle.failed_polls + (IF ev'.status = 0 THEN 0 ELSE 1)

\* C13: in one pass, when the task of a device raises or fails, the task of
\* every other device still commits its own metric rows and state, and the
\* failed count is the number of devices whose poll failed
C13_PassIsolation ==
    [][\A d \in DeviceIds :
          OthersUntouched(d) /\ CommitsOwnWork(d) /\ FailedOnce(d)]_vars

\* the same without the count
OwnWorkCommitted ==
    [][\A d \in DeviceIds : OthersUntouched(d) /\ CommitsOwnWork(d)]_vars

\* the step is the one at which perform_full_poll logs its counts and returns
PassReturns == cycle.active /\ ~cycle'.active

\* C20: at the end of a pass successful + failed is the number of devices of
\* the pass, each device being counted once, and a device whose task raised
\* or was rolled back is not counted as successful
C20_CountedOnce ==
    [][/\ PassReturns
          => cycle.successful_polls + cycle.failed_polls = Cardinality(cycle.device_ids)
       /\ (ev'.op \in TaskEnds /\ ev'.status # 0)
          => cycle'.successful_polls = cycle.successful_polls]_vars

\* the device_metrics rows of device d among `rows`
DeviceRows(rows, d) ==
    {r \in rows : r.table = "device_metrics" /\ r.device_id = d}

\* the metric rows of the pass that the task of d has added or committed
PassRows(t, rows, d) == t.rows \cup RowsFor(rows, d)

\* poll_device returns True: one device_metrics row, and the walk follows
SuccessAppends(d) ==
    (ev'.op = "insert_device_metric" /\ ev'.d = d /\ ev'.status = 0)
    => /\ Cardinality(DeviceRows(PassRows(task'[d], metric_rows', d), d)) = 1
       /\ DeviceRows(PassRows(task[d], metric_rows, d), d) = {}
       /\ task'[d].pc = "walk"

\* poll_device returns False: no metric row, and the task goes to its end
\* without a walk
FailureAppendsNothing(d) ==
    /\ PollEndsInFailure(d)
          => PassRows(task'[d], metric_rows', d) = {} /\ task'[d].pc = "failed"
    /\ (ev'.op = "poll_failed" /\ ev'.d = d)
          => /\ task[d].pc = "failed"
             /\ PassRows(task[d], metric_rows, d) = {}
             /\ RowsFor(metric_rows', d) = {}

\* a metric row appears and a walk is issued only after poll_device
\* returned True
OnlyAfterSuccess(d) ==
    /\ PassRows(task'[d], metric_rows', d) \ PassRows(task[d], metric_rows, d) # {}
          => \/ ev'.op = "insert_device_metric" /\ ev'.d = d /\ ev'.status = 0
             \/ ev'.op = "poll_interfaces" /\ ev'.d = d /\ task[d].pc = "walk"
    /\ (task'[d].pc = "walk" /\ task[d].pc # "walk")
          => ev'.op = "insert_device_metric" /\ ev'.d = d /\ ev'.status = 0

\* C16: in a poll task a device metric row is appended and the interface
\* poll is attempted if and only if the device poll succeeded: a successful
\* device poll appends exactly one device_metrics row, a failed one appends
\* no device or interface metric row and issues no bulk walk
C16_MetricIffSuccess ==
    [][\A d \in DeviceIds :
          SuccessAppends(d) /\ FailureAppendsNothing(d) /\ OnlyAfterSuccess(d)]_vars

\* a failed poll of a device has just ended with nothing written, after a
\* successful poll in an earlier pass
C16_Witness ==
    /\ ev.op = "poll_failed" /\ ev.status = 0
    /\ devices[ev.d].consecutive_failures = 1
    /\ RowsFor(metric_rows, ev.d) = {}
    /\ InterfacesOf(interfaces, ev.d) # {}

\* the metric rows of the running pass, committed or in a session
AllRows == metric_rows \cup UNION {task[d].rows : d \in DeviceIds}

\* C17: the device_metrics and interface_metrics rows written during one
\* pass carry one timestamp, fixed when the pass starts, whenever and in
\* whatever order the tasks run
C17_OneTimestamp ==
    /\ [](cycle.active => \A r \in AllRows : r.timestamp = cycle.timestamp)
    /\ [][(cycle.active /\ cycle'.active) => cycle'.timestamp = cycle.timestamp]_vars

\* after the clock has moved on, a task inserts its device row while rows of
\* another device, an interface row among them, are committed
C17_Witness ==
    /\ cycle.active /\ now > cycle.timestamp
    /\ ev.op = "insert_device_metric" /\ ev.status = 0
    /\ task[ev.d].rows = {MetricRow("device_metrics", ev.d, NoIf, cycle.timestamp)}
    /\ \E r \in metric_rows : r.device_id # ev.d /\ r.table = "interface_metrics"

\* the step at which perform_full_discovery builds its result and returns
ScanReturns == discovery.active /\ ~discovery'.active

GateHolds ==
    /\ Cardinality(Running) <= PollingConcurrency
    /\ Cardinality(Probing) <= DiscoveryConcurrency
    /\ \A d \in DeviceIds : task[d].runs <= 1
    /\ \A h \in Hosts : discovery.probe[h].runs <= 1

ProcessedOnce ==
    /\ PassReturns => (\A d \in cycle.device_ids : task[d].runs = 1)
    /\ ScanReturns => (\A h \in Hosts : discovery.probe[h].runs = 1)

\* C18: at most polling_concurrency poll tasks and at most
\* discovery_concurrency probes are past the gate at once, and every device
\* id and every host has been processed exactly once when the pass returns
C18_Gate ==
    /\ []GateHolds
    /\ [][ProcessedOnce]_vars

\* the gate is full, one task inside it awaits its walk, and a task waits
\* at the gate
C18_Witness ==
    /\ Cardinality(Running) = PollingConcurrency
    /\ \E d \in DeviceIds : task[d].pc = "queued"
    /\ \E d \in DeviceIds : task[d].pc = "walk"

\* a session is open exactly while its task is past the gate, and closed
\* when the task has returned
SessionsHeld ==
    /\ \A d \in DeviceIds :
          /\ task[d].session = "open" <=> d \in Running
          /\ task[d].pc = "done" => task[d].session = "closed"
          /\ task[d].pc \in {"idle", "queued"} => task[d].session = "none"
    /\ \A h \in Hosts :
          /\ discovery.probe[h].session = "open" <=> h \in Probing
          /\ discovery.probe[h].pc = "done" => discovery.probe[h].session = "closed"

\* a step of a probe leaves the other probes as they are
OtherProbesUntouched ==
    ev'.op = "probe"
    => \A h \in Hosts \ {ev'.d} : discovery'.probe[h] = discovery.probe[h]

SessionsApart ==
    /\ \A d \in DeviceIds : OthersUntouched(d)
    /\ OtherProbesUntouched
    /\ PassReturns => (\A d \in DeviceIds : task[d].session # "open")
    /\ ScanReturns => (\A h \in Hosts : discovery.probe[h].session # "open")
    /\ (~cycle.active /\ cycle'.active)
          => /\ cycle'.device_ids = present
             /\ \A d \in DeviceIds : task[d].session = "none"

\* C19: every session opened by a poll task or a probe is used by that task
\* only and is closed before the task ends, on every exit path, so no task
\* session is open when the pass returns; the pass lists the device ids
\* when no task session exists
C19_SessionsClosed ==
    /\ []SessionsHeld
    /\ [][SessionsApart]_vars

\* the task of a deleted device has just returned with its session closed
\* while the session of another task is open and a third task has ended
C19_Witness ==
    /\ ev.op = "device_not_found"
    /\ task[ev.d].session = "closed"
    /\ \E d \in DeviceIds : task[d].session = "open"
    /\ \E d \in DeviceIds \ {ev.d} : task[d].session = "closed"

(***************************************************************************)
(* Properties of the poll coordinator                                      *)
(***************************************************************************)

\* the step at which trigger t gets the answer of is_polling()
Observes(t) == trig[t].pc = "is_polling" /\ trig'[t].pc # "is_polling"

\* a trigger that observed the flag set is back at rest, skipped or
\* answered 409, and flag and kind are as they were
TurnedAway(t) ==
    (Observes(t) /\ polling_state.is_polling)
    => /\ trig'[t].pc = "idle"
       /\ trig'[t].last = (IF t = AUTO THEN "skipped" ELSE "409")
       /\ polling_state' = polling_state

\* only a trigger that went through start_polling is in perform_full_poll
CycleNeedsStart(t) ==
    (trig'[t].pc = "polling" /\ trig[t].pc # "polling")
    => trig[t].pc = "start_polling"

\* C21: a trigger that observes the running flag set runs no cycle and
\* leaves flag and kind unchanged: the automatic loop skips the tick at
\* once, a manual request is answered 409
C21_TurnedAway ==
    [][\A t \in Triggers : TurnedAway(t) /\ CycleNeedsStart(t)]_vars

\* while a manual cycle is in perform_full_poll, the automatic loop has
\* skipped its tick and another manual request has been answered 409
C21_Witness ==
    /\ polling_state = [is_polling |-> TRUE, polling_type |-> "manual"]
    /\ trig[AUTO].pc = "idle" /\ trig[AUTO].last = "skipped"
    /\ \E t, u \in Manuals :
          /\ trig[t].pc = "polling"
          /\ trig[u].pc = "idle" /\ trig[u].last = "409"

\* the step of start_polling(kind): true exactly when the flag was not set,
\* and only then flag and kind are set
TestAndSet(t) ==
    (trig[t].pc = "start_polling" /\ trig'[t].pc # "start_polling")
    => /\ trig'[t].ret = ~polling_state.is_polling
       /\ polling_state' = (IF polling_state.is_polling
                            THEN polling_state
                            ELSE [is_polling |-> TRUE, polling_type |-> KindOf(t)])

\* the step of end_polling
EndClears(t) ==
    (trig[t].pc = "end_polling" /\ trig'[t].pc # "end_polling")
    => polling_state' = [is_polling |-> FALSE, polling_type |-> NULL]

\* get_status reports a null kind exactly when is_polling is false
StatusConsistent ==
    (get_status(polling_state).polling_type = NULL)
        <=> ~get_status(polling_state).is_polling

\* C22: start_polling(kind) is a test-and-set: it returns true exactly when
\* the flag was not set and only then sets flag and kind; end_polling clears
\* both, so the reported kind is null exactly when is_polling is false
C22_TestAndSet ==
    /\ []StatusConsistent
    /\ [][\A t \in Triggers : TestAndSet(t) /\ EndClears(t)]_vars

\* start_polling("automatic") has returned false to the automatic loop, which
\* is in perform_full_poll while the kind recorded is still "manual"
C22_Witness ==
    /\ trig[AUTO].pc = "polling" /\ ~trig[AUTO].ret
    /\ polling_state = [is_polling |-> TRUE, polling_type |-> "manual"]

(***************************************************************************)
(* Properties of discovery                                                 *)
(***************************************************************************)

NoSharedMac ==
    \A i, j \in DOMAIN inventory :
        i # j => inventory[i].mac_address # inventory[j].mac_address

\* the step at which a probe has found a device whose MAC row i holds under
\* another address
FoundMoved(i) ==
    /\ ev'.op = "probe" /\ ev'.m = "found"
    /\ inventory[i].mac_address = ev'.pre.mac_address
    /\ inventory[i].ip_address # ev'.pre.ip_address

UpdatedInPlace(i) ==
    /\ Len(inventory') = Len(inventory)
    /\ inventory'[i] = ev'.pre

\* C23: after a discovery pass, also one whose concurrent probes find the
\* same MAC, no two device rows share a MAC: a known MAC found at a new
\* address updates the address and hostname of its row in place and the
\* number of devices does not grow
C23_DedupByMac ==
    /\ []NoSharedMac
    /\ [][\A i \in DOMAIN inventory : FoundMoved(i) => UpdatedInPlace(i)]_vars

\* what holds of every scan: no two rows share a MAC, a found device with a
\* known MAC adds no row, and it takes the new address and hostname when no
\* other row holds either
MacKeptApart ==
    /\ []NoSharedMac
    /\ [][\A i \in DOMAIN inventory :
            FoundMoved(i)
            => /\ Len(inventory') = Len(inventory)
               /\ ev'.res => inventory'[i] = ev'.pre
               /\ ~ev'.res => inventory' = inventory]_vars

\* the hosts whose probe returned a device
Returned == {h \in Hosts : discovery.probe[h].met \in {"found", "unsaved"}}

\* the result of a scan: every host probed once, the raising probes among
\* them, and counted by what the probes returned
ScanCounted ==
    ScanReturns
    => /\ \A h \in Hosts : discovery.probe[h].runs = 1 /\ discovery.probe[h].met # NULL
       /\ discovery'.total_scanned = Cardinality(Hosts)
       /\ discovery'.devices_found = Cardinality(Returned)
       /\ discovery'.devices = Returned

\* a request with a network that does not parse
InvalidScan ==
    (ev'.op = "discover" /\ ev'.status = 400)
    => /\ discovery'.total_scanned = 0 /\ discovery'.devices_found = 0
       /\ discovery'.devices = {}
       /\ \A h \in Hosts : discovery'.probe[h].pc = "idle"

\* C24: perform_full_discovery probes every host address of the block once
\* and returns total_scanned = the number of addresses and devices_found =
\* the number of probes that returned a device; a probe that raises counts
\* as not found and keeps no other probe from running or being counted; an
\* invalid network yields 0 scanned and 0 found
C24_ScanResult == [][ScanCounted /\ InvalidScan]_vars

\* a scan has returned one device found of three addresses, one probe having
\* raised and one host having been silent
C24_Witness ==
    /\ ev.op = "discovered"
    /\ discovery.total_scanned = MaxHosts /\ discovery.devices_found = 1
    /\ \E h, k \in Hosts : ev.res[h] = "raise" /\ ev.res[k] = "silent"

(***************************************************************************)
(* Properties of the e-mail callback                                       *)
(***************************************************************************)

\* the status update_email_status leaves for a dispatch that ended in success
StatusOf(status) == IF status = 200 THEN "success" ELSE "failed"

\* the step at which the thread of a dispatch calls back
CallsBack == ev'.op = "email_callback"

\* every record of the dispatch exists and carries the outcome
StatusRecorded ==
    \A i \in ev'.pre :
        /\ i <= Len(alert_history')
        /\ alert_history'[i].email_status = StatusOf(ev'.status)

\* C25: for every alert_history record opened with a notification, when the
\* dispatch completes the e-mail status goes from pending to success or
\* failed, whether the callback runs before the commit of the poll task,
\* after it, or after the session is closed
C25_EmailStatus == [][CallsBack => StatusRecorded]_vars

\* what holds: a callback that runs when the records of its dispatch are
\* committed sets their status
CallbackAfterCommit ==
    [][(CallsBack /\ \A i \in ev'.pre : i <= Len(alert_history))
          => StatusRecorded]_vars

(***************************************************************************)
(* Properties of the interface evaluators.  At the step of poll_interfaces *)
(* the tables hold the samples of the earlier polls (newest first) and the *)
(* reply of the walk holds the latest sample of each interface index.      *)
(***************************************************************************)

\* the step in which poll_interfaces of device d stores a walk and evaluates
WalkEvaluated(d) ==
    ev'.op = "poll_interfaces" /\ ev'.d = d /\ ev'.res.success

\* the rows of the interfaces of d after the step, by row id
EvaluatedInterfaces(d) == InterfacesOf(task'[d].ifs, d)

\* the state of alert m of interface row i when the step began; a row the
\* step inserts begins clear
StateBefore(i, m) ==
    IF i <= Len(interfaces) THEN interfaces[i][StateField(m)] ELSE "clear"

\* the samples of interface row i stored before the step, newest first
Earlier(i) == IF i <= Len(if_metrics) THEN if_metrics[i] ELSE <<>>

\* the sample the walk of the step brought for interface row i
Latest(d, i) == ev'.res.data[task'[d].ifs[i].if_index]

\* the alert_history rows of (m, interface row i) in the tables and the
\* session of a task
InterfaceRows(hist, new, i, m) ==
    LET all == hist \o new
    IN {k \in 1..Len(all) : all[k].alert_type = m /\ all[k].interface_id = i}

OpenedFor(d, i, m) ==
    InterfaceRows(alert_history', task'[d].new, i, m)
        \ InterfaceRows(alert_history, task[d].new, i, m)

\* the link went down between the previous and the latest sample
WentDown(d, i) ==
    /\ Earlier(i) # <<>>
    /\ Earlier(i)[1].oper_status = 1
    /\ Latest(d, i).oper_status # 1

StatusEdge(d, i) ==
    StateBefore(i, "interface_status") = "clear"
    => IF WentDown(d, i)
       THEN /\ task'[d].ifs[i].oper_status_alert_state = "triggered"
            /\ Cardinality(OpenedFor(d, i, "interface_status")) = 1
            /\ Alerts(ev'.log, "interface") = 1
       ELSE /\ task'[d].ifs[i].oper_status_alert_state = "clear"
            /\ OpenedFor(d, i, "interface_status") = {}
            /\ agent = "interface_status" => Alerts(ev'.log, "interface") = 0

\* C26: an interface operational-status alert is triggered (clear to
\* triggered, record opened, notification requested) only at a poll where a
\* previous sample exists, it was up and the latest is not up; with a single
\* sample, or the previous sample down already, clear stays clear and
\* nothing is sent
C26_StatusEdge ==
    [][\A d \in DeviceIds :
          WalkEvaluated(d) => \A i \in EvaluatedInterfaces(d) : StatusEdge(d, i)]_vars

\* a link that was up has just been found down: triggered, one record, one
\* notification
C26_Witness ==
    /\ ev.op = "poll_interfaces" /\ ev.res.success
    /\ Len(ev.res.data) > 0 /\ Len(if_metrics) > 0 /\ Len(interfaces) > 0
    /\ ev.res.data[1].oper_status = 2
    /\ if_metrics[1] # <<>> /\ if_metrics[1][1].oper_status = 1
    /\ interfaces[1].oper_status_alert_state = "clear"
    /\ task[ev.d].ifs[1].oper_status_alert_state = "triggered"
    /\ Alerts(ev.log, "interface") = 1

\* the evaluation of the drop rate over two samples was breaching
DropBreach(i, latest, previous) ==
    IsExceeded(latest, previous, interfaces[i].packet_drop_threshold)

\* the poll before this one evaluated a breach for interface row i
BreachedBefore(i) ==
    Len(Earlier(i)) > 1 /\ DropBreach(i, Earlier(i)[1], Earlier(i)[2])

\* this poll evaluates a breach that the poll before it did not
NewBreach(d, i) ==
    /\ Earlier(i) # <<>>
    /\ DropBreach(i, Latest(d, i), Earlier(i)[1])
    /\ ~BreachedBefore(i)

DropEdge(d, i) ==
    StateBefore(i, "packet_drop") = "clear"
    => IF NewBreach(d, i)
       THEN /\ task'[d].ifs[i].packet_drop_alert_state = "triggered"
            /\ Cardinality(OpenedFor(d, i, "packet_drop")) = 1
            /\ Alerts(ev'.log, "interface") = 1
       ELSE /\ task'[d].ifs[i].packet_drop_alert_state = "clear"
            /\ OpenedFor(d, i, "packet_drop") = {}
            /\ agent = "packet_drop" => Alerts(ev'.log, "interface") = 0

\* C27: a packet-drop alert is triggered only at a poll where a previous
\* sample exists and the breach is new on that poll (the evaluation of the
\* poll before was not breaching, this one is); a breach already present at
\* the poll before triggers no alert and no notification while the state is
\* clear, for example right after a user resolve
C27_DropEdge ==
    [][\A d \in DeviceIds :
          WalkEvaluated(d) => \A i \in EvaluatedInterfaces(d) : DropEdge(d, i)]_vars

\* the part of C27 that the evaluator keeps: from clear, an alert is
\* triggered exactly at a poll with a previous sample whose evaluation is
\* breaching, whether or not the poll before was breaching too
DropLevel(d, i) ==
    StateBefore(i, "packet_drop") = "clear"
    => IF Earlier(i) # <<>> /\ DropBreach(i, Latest(d, i), Earlier(i)[1])
       THEN /\ task'[d].ifs[i].packet_drop_alert_state = "triggered"
            /\ Cardinality(OpenedFor(d, i, "packet_drop")) = 1
       ELSE /\ task'[d].ifs[i].packet_drop_alert_state = "clear"
            /\ OpenedFor(d, i, "packet_drop") = {}

TriggersOnLevel ==
    [][\A d \in DeviceIds :
          WalkEvaluated(d) => \A i \in EvaluatedInterfaces(d) : DropLevel(d, i)]_vars

(***************************************************************************)
(* Properties of the counter arithmetic.                                   *)
(***************************************************************************)

\* what the delta of a counter pair is to be
DeltaOf(cur, prev) ==
    IF cur # NoCount /\ prev # NoCount /\ cur >= prev THEN cur - prev ELSE 0

\* C28: for every pair of counter samples (prev, cur) used in packet-drop
\* evaluation the delta is cur - prev when cur >= prev and 0 when cur < prev
\* or when either sample is missing; it is never negative
C28_SafeDelta ==
    ev.op = "get_safe_delta"
    => /\ ev.res = DeltaOf(ev.pre[1], ev.pre[2])
       /\ ev.res >= 0

\* a delta was taken of a counter that went back
C28_Witness ==
    /\ ev.op = "get_safe_delta"
    /\ ev.pre[1] # NoCount /\ ev.pre[2] # NoCount /\ ev.pre[1] < ev.pre[2]
    /\ ev.res = 0

\* the rows the request looked at: all of them, or those of the date range
Looked ==
    IF ev.op = "get_network_throughput"
    THEN if_metrics[1]
    ELSE SelectSeq(if_metrics[1],
                   LAMBDA r : r.timestamp >= ev.pre[1] /\ r.timestamp <= ev.pre[2])

\* the inbound rate is the byte delta, 0 for a counter that went back,
\* times 8 over the seconds between the two rows
RateOfDelta(bps, cur, prev) ==
    /\ bps.wraps = 0
    /\ bps.num * (cur.timestamp - prev.timestamp)
          = DeltaOf(cur.octets_in, prev.octets_in) * 8 * bps.den

\* C29: in the throughput computation a byte counter that regresses between
\* two consecutive samples of an interface contributes a delta of 0, not a
\* 32-bit wraparound value; the reported bits per second are the byte delta
\* times 8 over the elapsed seconds
C29_ThroughputReset ==
    ev.op \in {"get_network_throughput", "get_report_network_throughput"}
    => \A k \in DOMAIN ev.res :
          RateOfDelta(ev.res[k].inbound_bps,
                      Looked[Len(Looked) - k], Looked[Len(Looked) - k + 1])

\* the part of C29 that the endpoints keep: a counter that did not go back
\* is reported as its delta times 8 over the elapsed seconds
RateOfGrowth ==
    ev.op \in {"get_network_throughput", "get_report_network_throughput"}
    => \A k \in DOMAIN ev.res :
          Looked[Len(Looked) - k].octets_in >= Looked[Len(Looked) - k + 1].octets_in
          => RateOfDelta(ev.res[k].inbound_bps,
                         Looked[Len(Looked) - k], Looked[Len(Looked) - k + 1])

\* what the deltas of the rate are to be: discards, and packets of the
\* three kinds, in and out
Dropped(latest, previous) ==
    DeltaOf(latest.discards_in, previous.discards_in)
    + DeltaOf(latest.discards_out, previous.discards_out)

Passed(latest, previous) ==
    DeltaOf(latest.packets_in, previous.packets_in)
    + DeltaOf(latest.packets_out, previous.packets_out)
    + DeltaOf(latest.multicast_packets_in, previous.multicast_packets_in)
    + DeltaOf(latest.multicast_packets_out, previous.multicast_packets_out)
    + DeltaOf(latest.broadcast_packets_in, previous.broadcast_packets_in)
    + DeltaOf(latest.broadcast_packets_out, previous.broadcast_packets_out)

RateIs(rate, dropped, passed) ==
    /\ rate.den > 0
    /\ 0 <= rate.num /\ rate.num <= 100 * rate.den
    /\ IF passed + dropped = 0
       THEN rate.num = 0
       ELSE rate.num * (passed + dropped) = dropped * 100 * rate.den

\* C30: for all non-negative counter samples the discard rate of packet-drop
\* evaluation is dropped-delta / (passed-packet-delta + dropped-delta) x 100
\* over the packet deltas (unicast + multicast + broadcast, in and out), lies
\* in [0, 100], and is 0 with no division by zero when passed + dropped is 0
C30_DiscardRate ==
    ev.op = "discard_rate"
    => RateIs(ev.res, Dropped(if_metrics[1][1], if_metrics[1][2]),
              Passed(if_metrics[1][1], if_metrics[1][2]))

\* a rate over discards, unicast and multicast packets that all grew
C30_Witness ==
    /\ ev.op = "discard_rate"
    /\ Dropped(if_metrics[1][1], if_metrics[1][2]) > 0
    /\ DeltaOf(if_metrics[1][1].packets_in, if_metrics[1][2].packets_in) > 0
    /\ DeltaOf(if_metrics[1][1].multicast_packets_in,
               if_metrics[1][2].multicast_packets_in) > 0
    /\ ev.res.num > 0 /\ ev.res.num < 100 * ev.res.den

\* no packet passed and none was dropped between the two rows: rate 0
ZeroTotal ==
    /\ ev.op = "discard_rate"
    /\ Passed(if_metrics[1][1], if_metrics[1][2])
         + Dropped(if_metrics[1][1], if_metrics[1][2]) = 0
    /\ ev.res.num = 0

(***************************************************************************)
(* Storage writes under lock contention.  `answers` is what the database   *)
(* answers to the successive attempts of one write: "locked" (an           *)
(* OperationalError 'database is locked'), "error" (any other error) or    *)
(* "ok".  Delays are in tenths of a second.                                *)
(***************************************************************************)

MaxRetries == 3

\* database.retry_on_lock from attempt `attempt` on, `delays` being the
\* sleeps so far
RECURSIVE retry_on_lock(_, _, _, _, _)
retry_on_lock(answers, max_retries, initial_delay, attempt, delays) ==
    IF answers[attempt + 1] = "ok"
    THEN [ok |-> TRUE, delays |-> delays, attempts |-> attempt + 1]
    ELSE IF answers[attempt + 1] = "locked" /\ attempt < max_retries - 1
         THEN retry_on_lock(answers, max_retries, initial_delay, attempt + 1,
                            Append(delays, initial_delay * (2 ^ attempt)))
         ELSE [ok |-> FALSE, delays |-> delays, attempts |-> attempt + 1]

\* a call of retry_on_lock(func, max_retries, initial_delay)
RetryOnLock(answers, initial_delay) ==
    Computed("retry_on_lock", NULL, answers,
             retry_on_lock(answers, Len(answers), initial_delay, 0, <<>>))

\* limited_polling lines 356-361: task_db.commit() is called as it is; an
\* exception goes to the handler, which rolls back and counts a failure
TaskCommit(answers) ==
    Computed("commit", NULL, answers,
             [ok |-> answers[1] = "ok", delays |-> <<>>, attempts |-> 1])

NextStore ==
    \E n \in 1..MaxRetries : \E answers \in [1..n -> {"locked", "error", "ok"}] :
        \/ \E initial_delay \in 1..MaxRetries : RetryOnLock(answers, initial_delay)
        \/ TaskCommit(answers)

SpecStore == InitMail /\ [][NextStore]_vars

\* the attempt that ends a write retried on lock contention: the first one
\* that is not answered "locked", or the last one allowed
Decisive(answers) ==
    LET over == {k \in DOMAIN answers : answers[k] # "locked"} \cup {Len(answers)}
    IN CHOOSE k \in over : \A j \in over : k <= j

\* the write was retried on "locked" with a delay that doubles, a bounded
\* number of times, and ended with the answer of the decisive attempt
RetriedWithBackoff(res, answers) ==
    /\ res.attempts = Decisive(answers)
    /\ res.ok = (answers[Decisive(answers)] = "ok")
    /\ Len(res.delays) = res.attempts - 1
    /\ \A k \in DOMAIN res.delays : k > 1 => res.delays[k] = 2 * res.delays[k - 1]

\* C32: a storage write of a poll task that fails because of transient lock
\* contention is retried with exponential backoff, a bounded number of
\* attempts with the delay doubling, and fails the task only after the
\* retries are exhausted; an error that is not lock contention is surfaced
\* at once without retry
C32_WriteRetried ==
    ev.op = "commit" => RetriedWithBackoff(ev.res, ev.pre)

\* retry_on_lock itself keeps the policy
HelperRetries ==
    ev.op = "retry_on_lock" => RetriedWithBackoff(ev.res, ev.pre)

\* retry_on_lock got through a lock that lasted two attempts
HelperGotThrough ==
    /\ ev.op = "retry_on_lock"
    /\ ev.res.ok /\ ev.res.attempts = 3 /\ ev.res.delays = <<1, 2>>

(***************************************************************************)
(* Properties of the table walk.                                           *)
(***************************************************************************)

\* the rows of the requested columns in the agent's table
RequestedRows ==
    {[base_oid |-> b, index |-> i, value |-> b[1] * 10 + i] :
        b \in walk.base_oids, i \in 1..walk.rows}

WalkedRows == {walk.results[k] : k \in DOMAIN walk.results}

\* a successful walk returns the rows of the requested columns, all of them
\* and nothing else; a failed one returns the failure value
WalkResult ==
    walk.pc = "returned"
    => IF walk.success THEN WalkedRows = RequestedRows ELSE walk.results = <<>>

\* the rows of the present response that lie under a requested base OID
ResponseRows(b) ==
    LET table == bulk_cmd(walk.oid_objects, walk.rows)
    IN {k \in DOMAIN table : IsChild(table[k], b)}

LastOf(b) ==
    LET table == bulk_cmd(walk.oid_objects, walk.rows)
    IN table[CHOOSE k \in ResponseRows(b) : \A j \in ResponseRows(b) : j <= k]

\* a pass of the loop goes on exactly when the response holds a row under
\* some requested base OID, and then from the last row of each such base
WalkGoesOn ==
    walk.pc = "walking" /\ walk'.pc # "walking" /\ walk'.success
    => \A b \in walk.base_oids : ResponseRows(b) = {}

WalkContinues ==
    walk.pc = "walking" /\ walk'.pc = "walking"
    => /\ \E b \in walk.base_oids : ResponseRows(b) # {}
       /\ {walk'.oid_objects[k] : k \in DOMAIN walk'.oid_objects}
            = {LastOf(b) : b \in {c \in walk.base_oids : ResponseRows(c) # {}}}

\* C31: bulk_walk keeps issuing bulk requests, continuing from the last row
\* received for each base OID, until a response contains no row under any
\* requested base OID; it then returns every row of every requested column
\* as (base OID, last index segment, value) and no row from outside the
\* requested subtrees; an error indication, an error status or an exception
\* yields a failure value; every call returns
C31_BulkWalk ==
    /\ []WalkResult
    /\ [][WalkGoesOn /\ WalkContinues]_vars
    /\ (walk.pc = "walking") ~> (walk.pc = "returned")

\* a walk of two columns of a table longer than one response has returned
C31_Witness ==
    /\ walk.pc = "returned" /\ walk.success
    /\ walk.rows > max_repetitions
    /\ Cardinality(walk.base_oids) = 2
    /\ WalkedRows = RequestedRows

\* a walk returned a row more than once
RowTwice ==
    /\ walk.pc = "returned" /\ walk.success
    /\ Len(walk.results) > Cardinality(RequestedRows)

(***************************************************************************)
(* Properties of the interface rows.                                       *)
(***************************************************************************)

\* no two rows for the same device and interface index
KeyedOnce(ifs) ==
    \A i, j \in DOMAIN ifs :
        i # j => <<ifs[i].device_id, ifs[i].if_index>> # <<ifs[j].device_id, ifs[j].if_index>>

RowsOfIndex(ifs, d, idx) ==
    {i \in DOMAIN ifs : ifs[i].device_id = d /\ ifs[i].if_index = idx}

\* the committed rows stay, under their device and index
RowsKept ==
    /\ Len(interfaces') >= Len(interfaces)
    /\ \A i \in DOMAIN interfaces :
          /\ interfaces'[i].device_id = interfaces[i].device_id
          /\ interfaces'[i].if_index = interfaces[i].if_index

\* after a poll has stored a walk, each index of the walk has one row: the
\* row it had, or a new one
OneRowPerSighting(d) ==
    WalkEvaluated(d)
    => \A idx \in DOMAIN ev'.res.data :
          /\ Cardinality(RowsOfIndex(task'[d].ifs, d, idx)) = 1
          /\ RowsOfIndex(interfaces, d, idx) \subseteq RowsOfIndex(task'[d].ifs, d, idx)

AcknowledgedFromClear ==
    /\ ev.op = "acknowledge" /\ ev.m \in Metrics
    /\ ev.pre.state = "clear"

\* C34: an acknowledge request for the cpu, memory or reachability alert of
\* an existing device whose alert state is clear returns HTTP 200 with state
\* acknowledged and an acknowledged_at value, and a following resolve
\* request returns the state to clear
C34_AcknowledgeFromClear ==
    /\ AcknowledgedFromClear
          => /\ ev.status = 200
             /\ devices[ev.d][StateField(ev.m)] = "acknowledged"
             /\ devices[ev.d][AckField(ev.m)] # NULL
    /\ (ev.op = "resolve" /\ ev.m \in Metrics)
          => /\ ev.status = 200
             /\ devices[ev.d][StateField(ev.m)] = "clear"

\* the part of C34 that the endpoints keep: a resolve request returns the
\* state to clear, from acknowledged as from any other state
ResolveReturnsClear ==
    (ev.op = "resolve" /\ ev.m \in Metrics)
    => /\ ev.status = 200
       /\ devices[ev.d][StateField(ev.m)] = "clear"
       /\ devices[ev.d][AckField(ev.m)] = NULL

(***************************************************************************)
(* Properties of the running flag                                          *)
(***************************************************************************)

\* while some trigger is inside perform_full_poll the flag is set
RunningWhilePolling == InFullPoll # {} => is_polling(polling_state)

\* a step that clears the flag is the end_polling of the trigger whose
\* start_polling returned true
ClearedByStarter ==
    (is_polling(polling_state) /\ ~is_polling(polling_state'))
    => \E t \in Triggers : /\ trig[t].pc = "end_polling"
                           /\ trig'[t].pc = "idle"
                           /\ trig[t].ret

\* C35: whenever some poll cycle is executing perform_full_poll the
\* coordinator reports running = true, and the running flag is cleared only
\* by the trigger whose start_polling call returned true for that cycle,
\* never by a trigger that did not start it
C35_FlagOwnedByStarter == []RunningWhilePolling /\ [][ClearedByStarter]_vars

\* the part of C35 that holds: the flag is cleared by end_polling steps only
ClearedByEndPolling ==
    [][(is_polling(polling_state) /\ ~is_polling(polling_state'))
       => \E t \in Triggers : trig[t].pc = "end_polling" /\ trig'[t].pc = "idle"]_vars

\* trigger t is in the cycle for which its start_polling set the flag
StartedCycle(t) == trig[t].ret /\ trig[t].pc \in {"polling", "end_polling"}

\* trigger t is through with its pass and the flag is not set
CycleOver(t) == trig[t].pc = "idle" /\ ~is_polling(polling_state)

\* the step in which a trigger leaves its pass leaves the flag unset
FinishedLeavesUnset ==
    \A t \in Triggers :
        (trig[t].pc \in {"polling", "end_polling"} /\ trig'[t].pc = "idle")
        => ~is_polling(polling_state')

\* C36: every poll cycle that set the running flag eventually clears it,
\* whether perform_full_poll returns or raises or the creation of the SNMP
\* client raises; a finished cycle never leaves the flag set, so that later
\* triggers are not blocked forever
C36_FlagCleared ==
    /\ \A t \in Triggers : StartedCycle(t) ~> CycleOver(t)
    /\ [][FinishedLeavesUnset]_vars
    /\ is_polling(polling_state) ~> ~is_polling(polling_state)

\* a cycle whose client creation raised has set the flag and is about to
\* clear it in its finally clause, with no other trigger under way
C36_Witness ==
    \E t \in Triggers :
        /\ StartedCycle(t) /\ trig[t].pc = "end_polling"
        /\ trig[t].last \in {"error", "500"}
        /\ is_polling(polling_state)
        /\ \A u \in Triggers \ {t} : trig[u].pc = "idle"

(***************************************************************************)
(* Properties of the committed alert columns                               *)
(***************************************************************************)

\* acknowledged_at of metric m is set in a row exactly when its state is
\* acknowledged
AckMatchesState(row, m) ==
    (row[AckField(m)] # NULL) <=> (row[StateField(m)] = "acknowledged")

DeviceAcksMatch == \A d \in present : \A m \in Metrics : AckMatchesState(devices[d], m)

InterfaceAcksMatch ==
    \A i \in 1..Len(interfaces) : \A m \in IfMetrics : AckMatchesState(interfaces[i], m)

\* C37: in every committed state, for every device and interface metric,
\* acknowledged_at is non-null exactly when the state is acknowledged, also
\* when a user acknowledge or resolve commits while a poll task that loaded
\* the same device earlier is suspended on its SNMP call and commits
\* afterwards
C37_AckMatchesState == DeviceAcksMatch /\ InterfaceAcksMatch

\* the committed open alert_history rows of (alert type, device, interface)
OpenRecords(m, d, i) ==
    {k \in 1..Len(alert_history) : /\ alert_history[k].alert_type = m
                                   /\ alert_history[k].device_id = d
                                   /\ alert_history[k].interface_id = i
                                   /\ alert_history[k].cleared_at = NULL}

Active(row, m) == row[StateField(m)] \in {"triggered", "acknowledged"}

DeviceRecordsMatch ==
    \A d \in present : \A m \in Metrics :
        (OpenRecords(m, d, NoIf) # {}) <=> Active(devices[d], m)

InterfaceRecordsMatch ==
    \A i \in 1..Len(interfaces) : \A m \in IfMetrics :
        (OpenRecords(m, interfaces[i].device_id, i) # {}) <=> Active(interfaces[i], m)

\* C38: in every committed state, for every (alert type, device,
\* interface), an open alert history record exists if and only if the state
\* of that metric is triggered or acknowledged; no open record remains once
\* the state is clear, whether by recovery, by a user's resolve or by the
\* clearing of the interface alerts of an unreachable device
C38_OpenRecordIffActive == DeviceRecordsMatch /\ InterfaceRecordsMatch

(***************************************************************************)
(* Properties of notifications and rollbacks                               *)
(***************************************************************************)

\* no task holds uncommitted work
NoOpenWork == \A d \in DeviceIds : task[d].pc \in {"idle", "queued", "get", "done"}

\* every alert_history row an e-mail thread was started for is committed
ThreadsHaveRows ==
    NoOpenWork => \A ids \in BagToSet(mail_threads) : \A k \in ids :
                      k <= Len(alert_history)

\* the step undoes the work of an evaluator that has just notified
NotifiedThenUndone ==
    /\ ev.op = "poll_device"
    /\ \E i \in 1..Len(ev.log) : ev.log[i].sent
    /\ ev'.op = "insert_device_metric"
    /\ ev'.status = 500

\* C39: every alert or recovery notification handed to the sink corresponds
\* to a state transition and an alert history change committed by the same
\* poll task: when the task rolls back after the evaluator ran, no
\* notification has been sent for the undone transition, and the next poll
\* does not notify a second time for the same breach
C39_NotifiedIsCommitted ==
    /\ []ThreadsHaveRows
    /\ [][~NotifiedThenUndone /\ run_alerts' <= 1]_vars

(***************************************************************************)
(* Properties of the discovery result                                      *)
(***************************************************************************)

\* the devices table holds a row with address h
Persisted(h) == \E i \in DOMAIN inventory : inventory[i].ip_address = h

\* C40: every device in the found list of a discovery pass has a device row
\* persisted with the reported address; a probe whose GET succeeded but
\* whose upsert failed is not included in devices_found or in the devices
\* list
C40_FoundIsPersisted ==
    ev.op = "discovered"
    => /\ \A h \in discovery.devices : Persisted(h)
       /\ \A h \in Hosts : ev.res[h] = "unsaved" => h \notin discovery.devices

\* the part of C40 that holds: a host that did not answer or whose probe
\* raised is not in the list
NotReturnedNotListed ==
    ev.op = "discovered"
    => \A h \in Hosts : ev.res[h] \in {"silent", "raise"} => h \notin discovery.devices

====
